---- MODULE Spec2Model ----
(***************************************************************************)
(* A model of the cig-chain node core: the UTXO store (utxo.py), the       *)
(* transaction model with per-input signatures (transaction.py), blocks    *)
(* (block.py) and the Blockchain orchestration (blockchain.py).            *)
(*                                                                         *)
(* SHA-256 is modelled as a collision-free function: a digest is the       *)
(* record of the fields that were serialised into it.  An RSA-PSS          *)
(* signature is modelled by the pair <<key, payload>>: it verifies under   *)
(* exactly that key for exactly that payload.                              *)
(***************************************************************************)
EXTENDS Integers, Sequences, FiniteSets, TLC

VARIABLES
    chain,                  \* Blockchain.chain: sequence of blocks
    pending_transactions,   \* Blockchain.pending_transactions (the mempool)
    utxo_set,               \* Blockchain.utxo_set.utxos: key -> UTXO
    consensus,              \* consensus type and who may produce a block
    now,                    \* the value time.time() returns
    ret,                    \* the last Blockchain/UTXOSet call and its result
    wtx,                    \* a Transaction object held by a wallet
    vret,                   \* the last Transaction.is_valid call on wtx
    mined,                  \* a Block object handed to mine_block / ProofOfWork.mine
    pbft,                   \* a PracticalByzantineFaultTolerance object
    handlers,               \* P2PServer: the handle_client threads of the node
    pos,                    \* a ProofOfStake object
    dpos,                   \* a DelegatedProofOfStake object
    poa,                    \* a ProofOfAuthority object
    hybrid,                 \* a HybridConsensus object
    sharding                \* a ShardingConsensus object

\* the consensus objects used on their own
engines == <<pos, dpos, poa, hybrid, sharding>>

\* the objects beside the node's Blockchain and the wallet's transaction
others == <<mined, pbft, handlers, engines>>

\* what no call on a consensus object or on a block changes
ledger == <<chain, pending_transactions, utxo_set, consensus, wtx, vret, handlers>>

vars == <<chain, pending_transactions, utxo_set, consensus, now, ret, wtx, vret,
          others>>

bcvars == <<chain, pending_transactions, utxo_set, consensus, now, ret, others>>

----------------------------------------------------------------------------
(* Bounds of the exploration *)

MaxTime == 1        \* clock readings are 0..MaxTime
MaxPending == 2     \* add/create stop when the mempool holds this many
MaxInputs == 2      \* inputs of a wallet-built transaction
MaxOutputs == 2     \* outputs of a wallet-built transaction
HashCycle == 4      \* period of the modelled leading-zero count of digests
MaxHandlers == 2    \* peers connected at the same time
MaxView == 2        \* change_view stops at this PBFT view

(* Program constants *)

MiningReward == 100
GenesisAmount == 1000000
Difficulty == 4
SendAmount == 10
MinValidators == 4

GenesisAddress == "GENESIS_ADDRESS"

Addresses == {GenesisAddress, "B", "M"}

Miners == {"M"}

None == <<>>

----------------------------------------------------------------------------
(* transaction.py: inputs, outputs, canonical hash *)

TransactionInput(tx_id, output_index) ==
    [tx_id |-> tx_id, output_index |-> output_index, signature |-> None]

TransactionOutput(amount, recipient_address) ==
    [amount |-> amount, recipient_address |-> recipient_address]

\* binascii.hexlify / unhexlify of the signature bytes
Hexlify(sig) == <<"hex", sig>>

Unhexlify(h) == h[2]

InputToDict(inp) ==
    [tx_id |-> inp.tx_id, output_index |-> inp.output_index,
     signature |-> IF inp.signature # None THEN Hexlify(inp.signature) ELSE None]

InputFromDict(d) ==
    [tx_id |-> d.tx_id, output_index |-> d.output_index,
     signature |-> IF d.signature # None THEN Unhexlify(d.signature) ELSE None]

OutputToDict(out) ==
    [amount |-> out.amount, recipient_address |-> out.recipient_address]

OutputFromDict(d) ==
    [amount |-> d.amount, recipient_address |-> d.recipient_address]

InputsToDict(tx) == [i \in 1..Len(tx.inputs) |-> InputToDict(tx.inputs[i])]

OutputsToDict(tx) == [i \in 1..Len(tx.outputs) |-> OutputToDict(tx.outputs[i])]

\* Transaction.__init__ ; timestamp = time.time()
Transaction(t) ==
    [kind |-> "Transaction", id |-> None, inputs |-> <<>>, outputs |-> <<>>,
     timestamp |-> t, type |-> "regular", contract_data |-> None]

\* Transaction.calculate_hash: the digest of inputs (signatures included),
\* outputs, timestamp and type (and contract_data when set)
CalculateHash(tx) ==
    [inputs |-> InputsToDict(tx), outputs |-> OutputsToDict(tx),
     timestamp |-> tx.timestamp, type |-> tx.type,
     contract_data |-> tx.contract_data]

AddInputTo(tx, tx_id, output_index) ==
    [tx EXCEPT !.inputs = Append(@, TransactionInput(tx_id, output_index))]

AddOutputTo(tx, amount, recipient_address) ==
    [tx EXCEPT !.outputs = Append(@, TransactionOutput(amount, recipient_address))]

\* Transaction.create_coinbase
CreateCoinbase(amount, miner_address, t) ==
    LET tx == AddOutputTo([Transaction(t) EXCEPT !.type = "coinbase"],
                          amount, miner_address)
    IN  [tx EXCEPT !.id = CalculateHash(tx)]

\* Transaction.to_dict: fills in the id when it is still unset
WithId(tx) == IF tx.id = None THEN [tx EXCEPT !.id = CalculateHash(tx)] ELSE tx

TxToDict(tx) ==
    LET w == WithId(tx)
    IN  [kind |-> "txdict", id |-> w.id, inputs |-> InputsToDict(w),
         outputs |-> OutputsToDict(w), timestamp |-> w.timestamp,
         type |-> w.type, contract_data |-> w.contract_data]

TxFromDict(d) ==
    [kind |-> "Transaction", id |-> d.id,
     inputs |-> [i \in 1..Len(d.inputs) |-> InputFromDict(d.inputs[i])],
     outputs |-> [i \in 1..Len(d.outputs) |-> OutputFromDict(d.outputs[i])],
     timestamp |-> d.timestamp, type |-> d.type,
     contract_data |-> d.contract_data]

----------------------------------------------------------------------------
(* utxo.py *)

UTXO(tx_id, output_index, amount, owner) ==
    [tx_id |-> tx_id, output_index |-> output_index, amount |-> amount,
     owner |-> owner, is_spent |-> FALSE]

UtxoKey(tx_id, output_index) == <<tx_id, output_index>>

\* UTXOSet.add_utxo: self.utxos[key] = utxo
AddUtxo(U, utxo) == (UtxoKey(utxo.tx_id, utxo.output_index) :> utxo) @@ U

\* UTXOSet.spend_utxo
SpendUtxo(U, tx_id, output_index) ==
    LET key == UtxoKey(tx_id, output_index)
    IN  IF key \in DOMAIN U THEN [U EXCEPT ![key].is_spent = TRUE] ELSE U

RECURSIVE SumAmounts(_, _)
SumAmounts(U, keys) ==
    IF keys = {} THEN 0
    ELSE LET k == CHOOSE x \in keys : TRUE
         IN  U[k].amount + SumAmounts(U, keys \ {k})

\* UTXOSet.get_utxos_for_address (as a set of keys)
UtxosForAddress(U, address) ==
    {k \in DOMAIN U : U[k].owner = address /\ ~U[k].is_spent}

\* UTXOSet.get_balance
GetBalance(U, address) == SumAmounts(U, UtxosForAddress(U, address))

----------------------------------------------------------------------------
(* Keys and signatures *)

\* The key pair of a wallet is named by the wallet's address.
PrivateKey(address) == address

PublicKey(address) == address

\* A verifier object whose verify() never raises (is_valid only requires of
\* the looked-up key that verify() returns without raising).
StubKey == "ACCEPT_ANY"

\* private_key.sign(tx_string, PSS, SHA256)
Sign(private_key, payload) == <<private_key, payload>>

\* a verification that checks the signer and not the signed payload
VerifyKeyOnly(public_key, signature, payload) ==
    \/ public_key = StubKey
    \/ /\ signature # None
       /\ signature[1] = public_key

\* public_key.verify(signature, tx_string, PSS, SHA256) does not raise
PublicKeyVerify(public_key, signature, payload) ==
    \/ public_key = StubKey
    \/ /\ signature # None
       /\ signature[1] = public_key
       /\ signature[2] = payload

\* "no key": what a lookup returns for an address it does not know
NoKey == "NONE"

\* Blockchain.get_public_key: the placeholder returns None for every address
GetPublicKey == [a \in Addresses |-> NoKey]

\* a key store that maps each address to the public key of its wallet
KeyStore == [a \in Addresses |-> PublicKey(a)]

StubStore == [a \in Addresses |-> StubKey]

\* the payload built in sign_input
TxToSign(tx, input_index, utxo_owner) ==
    [tx_id |-> CalculateHash(tx), input_index |-> input_index,
     utxo_owner |-> utxo_owner, outputs |-> OutputsToDict(tx)]

\* the payload rebuilt in is_valid
TxToVerify(tx, i, utxo_owner) ==
    [tx_id |-> CalculateHash(tx), input_index |-> i,
     utxo_owner |-> utxo_owner, outputs |-> OutputsToDict(tx)]

\* Transaction.sign_input: the transaction afterwards (unchanged when the
\* referenced UTXO is not in the set)
SignInput(tx, input_index, private_key, U) ==
    LET inp == tx.inputs[input_index]
        key == UtxoKey(inp.tx_id, inp.output_index)
    IN  IF key \notin DOMAIN U THEN tx
        ELSE [tx EXCEPT !.inputs[input_index].signature =
                 Sign(private_key, TxToSign(tx, input_index, U[key].owner))]

RECURSIVE SumInputs(_, _, _)
SumInputs(tx, U, n) ==
    IF n = 0 THEN 0
    ELSE U[UtxoKey(tx.inputs[n].tx_id, tx.inputs[n].output_index)].amount
         + SumInputs(tx, U, n - 1)

RECURSIVE SumOutputs(_, _)
SumOutputs(tx, n) ==
    IF n = 0 THEN 0 ELSE tx.outputs[n].amount + SumOutputs(tx, n - 1)

\* the loop body of is_valid without the "or utxo.is_spent" test
InputAcceptedIgnoringSpent(tx, U, public_key_provider, i) ==
    LET inp == tx.inputs[i]
        key == UtxoKey(inp.tx_id, inp.output_index)
    IN  /\ key \in DOMAIN U
        /\ public_key_provider[U[key].owner] # NoKey
        /\ PublicKeyVerify(public_key_provider[U[key].owner], inp.signature,
                           TxToVerify(tx, i, U[key].owner))

\* the body of the loop of is_valid for input i: no early "return False"
InputAccepted(tx, U, public_key_provider, i) ==
    LET inp == tx.inputs[i]
        key == UtxoKey(inp.tx_id, inp.output_index)
    IN  /\ key \in DOMAIN U
        /\ ~U[key].is_spent
        /\ public_key_provider[U[key].owner] # NoKey
        /\ PublicKeyVerify(public_key_provider[U[key].owner], inp.signature,
                           TxToVerify(tx, i, U[key].owner))

\* Transaction.is_valid
IsValid(tx, U, public_key_provider) ==
    IF tx.type = "coinbase" THEN TRUE
    ELSE IF tx.inputs = <<>> \/ tx.outputs = <<>> THEN FALSE
    ELSE IF \E i \in 1..Len(tx.inputs) : ~InputAccepted(tx, U, public_key_provider, i)
         THEN FALSE
    ELSE SumInputs(tx, U, Len(tx.inputs)) >= SumOutputs(tx, Len(tx.outputs))

----------------------------------------------------------------------------
(* block.py *)

\* Block.calculate_hash: the digest of index, previous_hash, timestamp, data
\* and nonce
BlockCalculateHash(b) ==
    [index |-> b.index, previous_hash |-> b.previous_hash,
     timestamp |-> b.timestamp, data |-> b.data, nonce |-> b.nonce]

\* Block.__init__
Block(index, previous_hash, timestamp, data, nonce) ==
    LET b == [index |-> index, previous_hash |-> previous_hash,
              timestamp |-> timestamp, data |-> data, nonce |-> nonce]
    IN  [index |-> index, previous_hash |-> previous_hash,
         timestamp |-> timestamp, data |-> data, nonce |-> nonce,
         hash |-> BlockCalculateHash(b), contract_results |-> <<>>,
         signatures |-> <<>>, merkle_root |-> None]

\* The number of leading '0' characters of a digest.  The model gives every
\* block content a digest with Difficulty leading zeros once in HashCycle
\* consecutive nonces, and fewer otherwise.
LeadingZeros(h) ==
    LET s == (h.nonce + h.index + h.timestamp) % HashCycle
    IN  IF s = HashCycle - 1 THEN Difficulty ELSE s % Difficulty

\* hash[:difficulty] == '0' * difficulty
StartsWithZeros(h, difficulty) == LeadingZeros(h) >= difficulty

\* mine_block that advances the nonce once and keeps the hash it started with
MineBlockStaleHash(b, difficulty) == [b EXCEPT !.nonce = @ + 1]

\* Block.mine_block
RECURSIVE MineBlock(_, _)
MineBlock(b, difficulty) ==
    IF StartsWithZeros(b.hash, difficulty) THEN b
    ELSE LET n == [b EXCEPT !.nonce = @ + 1]
         IN  MineBlock([n EXCEPT !.hash = BlockCalculateHash(n)], difficulty)

----------------------------------------------------------------------------
(* blockchain.py *)

\* ProofOfStake.validate_block / DelegatedProofOfStake.validate_block:
\* consensus.producers is the set of registered validators (PoS) or of
\* active delegates (DPoS)
ValidateBlock(block, address) ==
    /\ address \in consensus.producers
    /\ block.hash = BlockCalculateHash(block)

\* the UTXOs created for the outputs of tx: output i (from 0) of the first n
RECURSIVE AddOutputs(_, _, _)
AddOutputs(U, tx, n) ==
    IF n = 0 THEN U
    ELSE AddUtxo(AddOutputs(U, tx, n - 1),
                 UTXO(tx.id, n - 1, tx.outputs[n].amount,
                      tx.outputs[n].recipient_address))

\* the inputs of tx marked spent
RECURSIVE SpendInputs(_, _, _)
SpendInputs(U, tx, n) ==
    IF n = 0 THEN U
    ELSE SpendUtxo(SpendInputs(U, tx, n - 1),
                   tx.inputs[n].tx_id, tx.inputs[n].output_index)

\* Blockchain.process_block_transactions from transaction i of the block on:
\* the result and the UTXO set it leaves.  (The contract branch follows a
\* successful is_valid of a non-coinbase transaction.)
RECURSIVE ProcessFrom(_, _, _)
ProcessFrom(txs, U, i) ==
    IF i > Len(txs) THEN [ok |-> TRUE, utxos |-> U]
    ELSE LET tx == TxFromDict(txs[i])
         IN  IF tx.type = "coinbase"
             THEN ProcessFrom(txs, AddOutputs(U, tx, Len(tx.outputs)), i + 1)
             ELSE IF ~IsValid(tx, U, GetPublicKey)
             THEN [ok |-> FALSE, utxos |-> U]
             ELSE ProcessFrom(txs,
                      AddOutputs(SpendInputs(U, tx, Len(tx.inputs)),
                                 tx, Len(tx.outputs)),
                      i + 1)

ProcessBlockTransactions(block, U) == ProcessFrom(block.data.transactions, U, 1)

\* Blockchain.create_genesis_block: the block, and the bootstrap coinbase
\* whose output is put into the UTXO set
GenesisBlock(t, type) ==
    LET b == Block(0, "0", t, [transactions |-> <<>>, message |-> "Genesis Block"], 0)
    IN  IF type = "pow" THEN MineBlock(b, Difficulty) ELSE b

GenesisTx(t) == CreateCoinbase(GenesisAmount, GenesisAddress, t)

GenesisUtxos(t) ==
    AddUtxo(<<>>, UTXO(GenesisTx(t).id, 0, GenesisAmount, GenesisAddress))

Result(op, result) == [op |-> op, result |-> result]

\* the reward dict appended by mine_pending_transactions
RewardDict(miner_address) ==
    [kind |-> "dict", from |-> "SYSTEM", to |-> miner_address,
     amount |-> MiningReward]

\* position of the first entry of the mempool that is a plain dict (0: none)
FirstDict(pending) ==
    IF \E i \in 1..Len(pending) : pending[i].kind = "dict"
    THEN CHOOSE i \in 1..Len(pending) :
            /\ pending[i].kind = "dict"
            /\ \A j \in 1..(i - 1) : pending[j].kind # "dict"
    ELSE 0

\* add_transaction without the is_valid test
AddTransactionUnchecked(transaction) ==
    /\ Len(pending_transactions) < MaxPending
    /\ pending_transactions' = Append(pending_transactions, transaction)
    /\ ret' = Result("add_transaction", "true")
    /\ UNCHANGED <<chain, utxo_set, consensus, now, wtx, vret, others>>

\* Blockchain.add_transaction
AddTransaction(transaction) ==
    /\ Len(pending_transactions) < MaxPending
    /\ IF ~IsValid(transaction, utxo_set, GetPublicKey)
       THEN /\ ret' = Result("add_transaction", "false")
            /\ UNCHANGED pending_transactions
       ELSE /\ pending_transactions' = Append(pending_transactions, transaction)
            /\ ret' = Result("add_transaction", "true")
    /\ UNCHANGED <<chain, utxo_set, consensus, now, wtx, vret, others>>

\* Blockchain.create_transaction
CreateTransaction(transaction) ==
    /\ Len(pending_transactions) < MaxPending
    /\ pending_transactions' = Append(pending_transactions, transaction)
    /\ ret' = Result("create_transaction", "none")
    /\ UNCHANGED <<chain, utxo_set, consensus, now, wtx, vret, others>>

\* the mempool cleared before the block's transactions are processed
PendingDropped(pending) == <<>>

\* The mempool as mine_pending_transactions leaves it when it returns False:
\* the list is not reassigned; tx.to_dict(), called on every entry while the
\* block was built, has set the id of the entries that had none.
PendingKept(pending) == [i \in 1..Len(pending) |-> WithId(pending[i])]

\* the block's transactions with the coinbase put last
BlockTransactionsCoinbaseLast(coinbase_tx, pending) == pending \o <<coinbase_tx>>

\* block_transactions = [coinbase_tx], extended by the mempool
BlockTransactions(coinbase_tx, pending) == <<coinbase_tx>> \o pending

\* Blockchain.mine_pending_transactions.  The coinbase is stamped with the
\* clock at the call, the block with a later reading t.
MinePendingTransactions(miner_address, t) ==
    LET coinbase_tx == CreateCoinbase(MiningReward, miner_address, now)
        block_transactions == BlockTransactions(coinbase_tx, pending_transactions)
        d == FirstDict(pending_transactions)
        \* tx.to_dict() sets the id of each Transaction object it is called on
        block0 == Block(Len(chain), chain[Len(chain)].hash, t,
                        [transactions |->
                            [i \in 1..Len(block_transactions) |->
                                TxToDict(block_transactions[i])]], 0)
        block == IF consensus.type = "pow" THEN MineBlock(block0, Difficulty)
                 ELSE block0
        r == ProcessBlockTransactions(block, utxo_set)
    IN  /\ t \in now..MaxTime
        /\ now' = t
        /\ UNCHANGED <<consensus, wtx, vret, others>>
        /\ IF d # 0
           THEN \* a dict has no to_dict: AttributeError while the block is built
                /\ pending_transactions' =
                       [i \in 1..Len(pending_transactions) |->
                           IF i < d THEN WithId(pending_transactions[i])
                           ELSE pending_transactions[i]]
                /\ ret' = Result("mine_pending_transactions", "raise")
                /\ UNCHANGED <<chain, utxo_set>>
           ELSE IF consensus.type # "pow" /\ ~ValidateBlock(block, miner_address)
           THEN /\ pending_transactions' = PendingKept(pending_transactions)
                /\ ret' = Result("mine_pending_transactions", "false")
                /\ UNCHANGED <<chain, utxo_set>>
           ELSE IF ~r.ok
           THEN /\ utxo_set' = r.utxos
                /\ pending_transactions' = PendingKept(pending_transactions)
                /\ ret' = Result("mine_pending_transactions", "false")
                /\ UNCHANGED chain
           ELSE /\ utxo_set' = r.utxos
                /\ chain' = Append(chain, block)
                /\ pending_transactions' = <<RewardDict(miner_address)>>
                /\ ret' = Result("mine_pending_transactions", "true")

\* Blockchain.is_chain_valid from block i (1-based) on, over the node's own
\* UTXO set
RECURSIVE ChainValidFrom(_, _, _)
ChainValidFrom(ch, U, i) ==
    IF i > Len(ch) THEN [ok |-> TRUE, utxos |-> U]
    ELSE IF ch[i].hash # BlockCalculateHash(ch[i]) THEN [ok |-> FALSE, utxos |-> U]
    ELSE IF ch[i].previous_hash # ch[i - 1].hash THEN [ok |-> FALSE, utxos |-> U]
    ELSE LET r == ProcessBlockTransactions(ch[i], U)
         IN  IF ~r.ok THEN [ok |-> FALSE, utxos |-> r.utxos]
             ELSE ChainValidFrom(ch, r.utxos, i + 1)

IsChainValid ==
    LET r == ChainValidFrom(chain, utxo_set, 2)
    IN  /\ utxo_set' = r.utxos
        /\ ret' = Result("is_chain_valid", IF r.ok THEN "true" ELSE "false")
        /\ UNCHANGED <<chain, pending_transactions, consensus, now, wtx, vret, others>>

\* time passes between two calls
Tick ==
    /\ now < MaxTime
    /\ now' = now + 1
    /\ UNCHANGED <<chain, pending_transactions, utxo_set, consensus, ret, wtx, vret, others>>

----------------------------------------------------------------------------
(* The transactions wallets hand to the node *)

\* A wallet spends the UTXO at key k: SendAmount to the recipient, the rest
\* back to the owner, the input signed with the given private key (or left
\* unsigned).
SpendTx(U, k, recipient, private_key, t) ==
    LET tx0 == AddInputTo(Transaction(t), k[1], k[2])
        tx1 == AddOutputTo(tx0, SendAmount, recipient)
        tx2 == AddOutputTo(tx1, U[k].amount - SendAmount, U[k].owner)
    IN  IF private_key = NoKey THEN tx2 ELSE SignInput(tx2, 1, private_key, U)

\* the key of an output no block ever created
MissingKey == UtxoKey(CreateCoinbase(MiningReward, "nobody", 0).id, 0)

\* a regular transaction with outputs and no input
NoInputTx(recipient, t) == AddOutputTo(Transaction(t), SendAmount, recipient)

\* The Transaction objects a caller may submit in the current state.  The
\* wallet of GENESIS_ADDRESS built its transactions at time 0: it spends one
\* of its unspent outputs, to B or to M (two such transactions spend the
\* same output); the others are a transaction without inputs and two
\* coinbase-typed transactions.
SubmittedTransactions ==
    {SpendTx(utxo_set, k, r, PrivateKey(GenesisAddress), 0) :
        k \in UtxosForAddress(utxo_set, GenesisAddress), r \in {"B", "M"}}
    \cup {NoInputTx("B", 0)}
    \cup {CreateCoinbase(MiningReward, "B", 0), CreateCoinbase(SendAmount, "M", 0)}

\* the {"from", "to", "amount"} dict the command line and peers hand over
LegacyDict == [kind |-> "dict", from |-> "B", to |-> "M", amount |-> SendAmount]

----------------------------------------------------------------------------
(* The node *)

\* none of the consensus objects used on their own exists
NoEngine ==
    /\ pos = None
    /\ dpos = None
    /\ poa = None
    /\ hybrid = None
    /\ sharding = None

\* no block is being mined apart from the node's, no PBFT object exists and
\* no peer is connected
Standalone ==
    /\ mined = None
    /\ pbft = None
    /\ handlers = <<>>
    /\ NoEngine

ConsensusChoices ==
    {[type |-> "pow", producers |-> {}]}
    \cup {[type |-> ty, producers |-> p] : ty \in {"pos", "dpos"}, p \in {{}, {"M"}}}

Init ==
    /\ consensus \in ConsensusChoices
    /\ now = 0
    /\ chain = <<GenesisBlock(0, consensus.type)>>
    /\ pending_transactions = <<>>
    /\ utxo_set = GenesisUtxos(0)
    /\ ret = Result("__init__", "none")
    /\ wtx = Transaction(0)
    /\ vret = Result("none", "none")
    /\ Standalone

Next ==
    \/ \E tx \in SubmittedTransactions : AddTransaction(tx)
    \/ \E tx \in SubmittedTransactions \cup {LegacyDict} : CreateTransaction(tx)
    \/ \E m \in Miners, t \in 0..MaxTime : MinePendingTransactions(m, t)
    \/ IsChainValid
    \/ Tick

Spec == Init /\ [][Next]_vars

\* UTXOSet.spend_utxo called on the node's store
StoreSpendUtxo(k) ==
    /\ ret' = Result("spend_utxo", IF k \in DOMAIN utxo_set THEN "true" ELSE "false")
    /\ utxo_set' = SpendUtxo(utxo_set, k[1], k[2])
    /\ UNCHANGED <<chain, pending_transactions, consensus, now, wtx, vret, others>>

\* UTXOSet.add_utxo called on the node's store with a new output
StoreAddUtxo(utxo) ==
    /\ UtxoKey(utxo.tx_id, utxo.output_index) \notin DOMAIN utxo_set
    /\ utxo_set' = AddUtxo(utxo_set, utxo)
    /\ ret' = Result("add_utxo", "none")
    /\ UNCHANGED <<chain, pending_transactions, consensus, now, wtx, vret, others>>

\* the node with its UTXO store also called directly
NextStore ==
    \/ Next
    \/ \E k \in DOMAIN utxo_set \cup {MissingKey} : StoreSpendUtxo(k)
    \/ StoreAddUtxo(UTXO(MissingKey[1], 0, SendAmount, "B"))

InitStore == Init /\ consensus.type = "pow"

SpecStore == InitStore /\ [][NextStore]_vars

----------------------------------------------------------------------------
(* A wallet building, signing and checking one transaction (transaction.py) *)

NotChecked == Result("none", "none")

\* no input of tx carries a signature
Unsigned(tx) == \A i \in 1..Len(tx.inputs) : tx.inputs[i].signature = None

\* Transaction.add_input (the wallet builds the transaction before it signs)
WalletAddInput(k) ==
    /\ Len(wtx.inputs) < MaxInputs
    /\ Unsigned(wtx)
    /\ wtx' = AddInputTo(wtx, k[1], k[2])
    /\ vret' = NotChecked
    /\ UNCHANGED bcvars

\* Transaction.add_output, of an output the transaction does not hold yet
WalletAddOutput(amount, recipient_address) ==
    /\ Len(wtx.outputs) < MaxOutputs
    /\ Unsigned(wtx)
    /\ \A j \in 1..Len(wtx.outputs) :
          wtx.outputs[j] # TransactionOutput(amount, recipient_address)
    /\ wtx' = AddOutputTo(wtx, amount, recipient_address)
    /\ vret' = NotChecked
    /\ UNCHANGED bcvars

\* Transaction.sign_input, on an input that carries no signature yet
WalletSignInput(input_index, private_key) ==
    /\ input_index \in 1..Len(wtx.inputs)
    /\ wtx.inputs[input_index].signature = None
    /\ wtx' = SignInput(wtx, input_index, private_key, utxo_set)
    /\ vret' = NotChecked
    /\ UNCHANGED bcvars

\* somebody rewrites the recipient of an output of a signed transaction
TamperOutput(j, recipient_address) ==
    /\ j \in 1..Len(wtx.outputs)
    /\ ~Unsigned(wtx)
    /\ wtx.outputs[j].recipient_address # recipient_address
    /\ wtx' = [wtx EXCEPT !.outputs[j].recipient_address = recipient_address]
    /\ vret' = NotChecked
    /\ UNCHANGED bcvars

\* somebody attaches the signature of input i to the unsigned input j
AttachSignature(i, j) ==
    /\ i \in 1..Len(wtx.inputs)
    /\ j \in 1..Len(wtx.inputs)
    /\ i # j
    /\ wtx.inputs[i].signature # None
    /\ wtx.inputs[j].signature = None
    /\ wtx' = [wtx EXCEPT !.inputs[j].signature = wtx.inputs[i].signature]
    /\ vret' = NotChecked
    /\ UNCHANGED bcvars

Providers == {"key_store", "stub"}

Provider(name) == IF name = "key_store" THEN KeyStore ELSE StubStore

\* wtx.is_valid(utxo_set, provider)
WalletIsValid(name) ==
    /\ vret' = Result(name, IF IsValid(wtx, utxo_set, Provider(name))
                            THEN "true" ELSE "false")
    /\ UNCHANGED <<bcvars, wtx>>

InitTx ==
    /\ consensus = [type |-> "pow", producers |-> {}]
    /\ now = 0
    /\ chain = <<GenesisBlock(0, "pow")>>
    /\ pending_transactions = <<>>
    /\ utxo_set \in {GenesisUtxos(0), SpendUtxo(GenesisUtxos(0), GenesisTx(0).id, 0)}
    /\ ret = Result("__init__", "none")
    /\ wtx \in {Transaction(0), CreateCoinbase(MiningReward, "B", 0)}
    /\ vret = NotChecked
    /\ Standalone

NextTx ==
    \/ \E k \in DOMAIN utxo_set \cup {MissingKey} : WalletAddInput(k)
    \/ WalletAddOutput(SendAmount, "B")
    \/ WalletAddOutput(GenesisAmount - SendAmount, GenesisAddress)
    \/ WalletAddOutput(GenesisAmount, "B")
    \/ \E i \in 1..MaxInputs, a \in {GenesisAddress, "M"} :
          WalletSignInput(i, PrivateKey(a))
    \/ \E j \in 1..MaxOutputs : TamperOutput(j, "M")
    \/ \E i, j \in 1..MaxInputs : AttachSignature(i, j)
    \/ \E name \in Providers : WalletIsValid(name)

SpecTx == InitTx /\ [][NextTx]_vars

----------------------------------------------------------------------------
(* Gossip: blockchains on the wire (to_json / from_json) and the P2PServer *)

\* Block.to_dict of a block without contract results, signatures and merkle root
BlockToDict(b) ==
    [index |-> b.index, previous_hash |-> b.previous_hash,
     timestamp |-> b.timestamp, data |-> b.data, nonce |-> b.nonce,
     hash |-> b.hash]

\* the block from_json rebuilds: Block(...) computes a hash, which is then
\* overwritten by the stored one
BlockFromJson(d) ==
    [Block(d.index, d.previous_hash, d.timestamp, d.data, d.nonce)
        EXCEPT !.hash = d.hash]

\* UTXO.to_dict / UTXO.from_dict
UtxoToDict(u) ==
    [tx_id |-> u.tx_id, output_index |-> u.output_index, amount |-> u.amount,
     owner |-> u.owner, is_spent |-> u.is_spent]

UtxoFromDict(d) ==
    [UTXO(d.tx_id, d.output_index, d.amount, d.owner)
        EXCEPT !.is_spent = d.is_spent]

\* a Blockchain object: the fields to_json writes
BlockchainObject(ch, pending, U, type) ==
    [chain |-> ch, pending_transactions |-> pending, utxo_set |-> U,
     consensus_type |-> type]

\* Blockchain.to_json
ToJson(bc) ==
    [chain |-> [i \in 1..Len(bc.chain) |-> BlockToDict(bc.chain[i])],
     difficulty |-> Difficulty,
     pending_transactions |->
        [i \in 1..Len(bc.pending_transactions) |->
            IF bc.pending_transactions[i].kind = "dict"
            THEN bc.pending_transactions[i]
            ELSE TxToDict(bc.pending_transactions[i])],
     mining_reward |-> MiningReward,
     consensus_type |-> bc.consensus_type,
     utxo_set |-> [k \in DOMAIN bc.utxo_set |-> UtxoToDict(bc.utxo_set[k])]]

\* Blockchain.from_json: a new Blockchain of the given consensus type whose
\* chain, mempool and UTXO set are taken from the data
FromJson(data) ==
    BlockchainObject(
        [i \in 1..Len(data.chain) |-> BlockFromJson(data.chain[i])],
        [i \in 1..Len(data.pending_transactions) |->
            IF data.pending_transactions[i].kind = "dict"
            THEN data.pending_transactions[i]
            ELSE TxFromDict(data.pending_transactions[i])],
        [k \in DOMAIN data.utxo_set |-> UtxoFromDict(data.utxo_set[k])],
        data.consensus_type)

\* a peer's blockchain extended by a block holding the given transactions,
\* stamped t, mined or left at nonce 0; U is the peer's UTXO set afterwards
Extended(bc, txs, t, mine, U) ==
    LET b0 == Block(Len(bc.chain), bc.chain[Len(bc.chain)].hash, t,
                    [transactions |-> [i \in 1..Len(txs) |-> TxToDict(txs[i])]], 0)
        b  == IF mine THEN MineBlock(b0, Difficulty) ELSE b0
    IN  [bc EXCEPT !.chain = Append(@, b), !.utxo_set = U,
                   !.pending_transactions = <<RewardDict("M")>>]

\* the outputs of a coinbase added to U
WithCoinbase(U, cb) == AddOutputs(U, cb, Len(cb.outputs))

\* a peer right after construction
PeerFresh == BlockchainObject(<<GenesisBlock(0, "pow")>>, <<>>, GenesisUtxos(0), "pow")

\* the peer after it mined one block, and after a second coinbase-only block
PeerMined1 ==
    LET cb == CreateCoinbase(MiningReward, "M", 0)
    IN  Extended(PeerFresh, <<cb>>, 0, TRUE, WithCoinbase(PeerFresh.utxo_set, cb))

PeerMined2 ==
    LET cb == CreateCoinbase(MiningReward, "M", MaxTime)
    IN  Extended(PeerMined1, <<cb>>, MaxTime, TRUE,
                 WithCoinbase(PeerMined1.utxo_set, cb))

\* a peer whose block holds the payment of SendAmount from GENESIS_ADDRESS
\* to B, signed by the owner, with the UTXO set a node holds after applying
\* the block
PeerPaid ==
    LET cb == CreateCoinbase(MiningReward, "M", 0)
        k  == UtxoKey(GenesisTx(0).id, 0)
        tx == WithId(SpendTx(GenesisUtxos(0), k, "B", PrivateKey(GenesisAddress), 0))
        U1 == WithCoinbase(PeerFresh.utxo_set, cb)
        U2 == AddOutputs(SpendInputs(U1, tx, Len(tx.inputs)), tx, Len(tx.outputs))
    IN  Extended(PeerFresh, <<cb, tx>>, 0, TRUE, U2)

\* a chain whose second block was never mined (nonce 0, hash recomputed)
PeerUnmined ==
    LET cb == CreateCoinbase(MiningReward, "M", 0)
    IN  Extended(PeerFresh, <<cb>>, 0, FALSE, WithCoinbase(PeerFresh.utxo_set, cb))

\* chains whose last block carries a hash that is not the hash of its
\* content, or does not point at the block before it
PeerBadHash ==
    [PeerMined2 EXCEPT !.chain[3].hash = BlockCalculateHash(PeerUnmined.chain[2])]

PeerBadLink ==
    LET cb == CreateCoinbase(MiningReward, "M", MaxTime)
        bc == [PeerMined1 EXCEPT !.chain[2] = PeerUnmined.chain[2]]
    IN  [Extended(bc, <<cb>>, MaxTime, TRUE, WithCoinbase(PeerMined1.utxo_set, cb))
            EXCEPT !.chain[2] = PeerMined1.chain[2]]

\* the `blockchain` messages peers send
HonestChains == {ToJson(PeerFresh), ToJson(PeerMined1), ToJson(PeerMined2), ToJson(PeerPaid)}

GossipChains ==
    HonestChains \cup {ToJson(PeerUnmined), ToJson(PeerBadHash), ToJson(PeerBadLink)}

\* the `new_transaction` messages peers send
GossipTransactions == {LegacyDict}

\* handle_message that installs every longer chain, valid or not
HandleBlockchainLongestWins(data) ==
    LET received_chain == FromJson(data)
    IN  /\ IF Len(received_chain.chain) > Len(chain)
           THEN /\ chain' = received_chain.chain
                /\ pending_transactions' = received_chain.pending_transactions
                /\ utxo_set' = received_chain.utxo_set
                /\ consensus' = [type |-> received_chain.consensus_type, producers |-> {}]
                /\ ret' = Result("handle_message", "replaced")
           ELSE /\ ret' = Result("handle_message", "kept")
                /\ UNCHANGED <<chain, pending_transactions, utxo_set, consensus>>
        /\ UNCHANGED <<now, wtx, vret, others>>

\* handle_message that installs a valid chain that is not shorter
HandleBlockchainNotShorter(data) ==
    LET received_chain == FromJson(data)
        valid == ChainValidFrom(received_chain.chain, received_chain.utxo_set, 2)
    IN  /\ IF Len(received_chain.chain) >= Len(chain) /\ valid.ok
           THEN /\ chain' = received_chain.chain
                /\ pending_transactions' = received_chain.pending_transactions
                /\ utxo_set' = valid.utxos
                /\ consensus' = [type |-> received_chain.consensus_type, producers |-> {}]
                /\ ret' = Result("handle_message", "replaced")
           ELSE /\ ret' = Result("handle_message", "kept")
                /\ UNCHANGED <<chain, pending_transactions, utxo_set, consensus>>
        /\ UNCHANGED <<now, wtx, vret, others>>

\* P2PServer.handle_message, type `blockchain`: is_chain_valid runs on the
\* received Blockchain (and on its UTXO set) only when the chain is longer;
\* self.blockchain then becomes the received object, whose consensus object
\* was built by its constructor
HandleBlockchain(data) ==
    LET received_chain == FromJson(data)
        valid == ChainValidFrom(received_chain.chain, received_chain.utxo_set, 2)
    IN  /\ IF Len(received_chain.chain) > Len(chain) /\ valid.ok
           THEN /\ chain' = received_chain.chain
                /\ pending_transactions' = received_chain.pending_transactions
                /\ utxo_set' = valid.utxos
                /\ consensus' = [type |-> received_chain.consensus_type, producers |-> {}]
                /\ ret' = Result("handle_message", "replaced")
           ELSE /\ ret' = Result("handle_message", "kept")
                /\ UNCHANGED <<chain, pending_transactions, utxo_set, consensus>>
        /\ UNCHANGED <<now, wtx, vret, others>>

\* P2PServer.handle_message, type `new_transaction`
HandleNewTransaction(transaction) == CreateTransaction(transaction)

\* a node with one connected peer: its own calls and the peer's messages,
\* handled one at a time
NextGossip ==
    \/ Next
    \/ \E data \in GossipChains : HandleBlockchain(data)
    \/ \E transaction \in GossipTransactions : HandleNewTransaction(transaction)

SpecGossip == InitStore /\ [][NextGossip]_vars

----------------------------------------------------------------------------
(* The P2PServer with several peers: one handle_client thread per connection, *)
(* all calling handle_message on the same self.blockchain without a lock      *)

\* the handle_client threads
Handlers == 1..MaxHandlers

\* a thread waiting in recv
HandlerIdle == [pc |-> "recv", received_chain |-> None]

\* recv, json.loads and Blockchain.from_json of a `blockchain` message
HandlerReceive(th, data) ==
    /\ handlers[th].pc = "recv"
    /\ handlers' = [handlers EXCEPT
                       ![th] = [pc |-> "compare", received_chain |-> FromJson(data)]]
    /\ UNCHANGED <<chain, pending_transactions, utxo_set, consensus, now, ret,
                   wtx, vret, mined, pbft, engines>>

\* the test of handle_message: len(received_chain.chain) >
\* len(self.blockchain.chain) and received_chain.is_chain_valid(), evaluated
\* against the blockchain the node holds at that moment
HandlerCompare(th) ==
    LET received_chain == handlers[th].received_chain
        valid == ChainValidFrom(received_chain.chain, received_chain.utxo_set, 2)
    IN  /\ handlers[th].pc = "compare"
        /\ IF Len(received_chain.chain) > Len(chain) /\ valid.ok
           THEN /\ handlers' = [handlers EXCEPT
                       ![th] = [pc |-> "install",
                                received_chain |->
                                    [received_chain EXCEPT !.utxo_set = valid.utxos]]]
                /\ UNCHANGED ret
           ELSE /\ handlers' = [handlers EXCEPT ![th] = HandlerIdle]
                /\ ret' = Result("handle_message", "kept")
        /\ UNCHANGED <<chain, pending_transactions, utxo_set, consensus, now,
                       wtx, vret, mined, pbft, engines>>

\* self.blockchain = received_chain
HandlerInstall(th) ==
    LET received_chain == handlers[th].received_chain
    IN  /\ handlers[th].pc = "install"
        /\ chain' = received_chain.chain
        /\ pending_transactions' = received_chain.pending_transactions
        /\ utxo_set' = received_chain.utxo_set
        /\ consensus' = [type |-> received_chain.consensus_type, producers |-> {}]
        /\ ret' = Result("handle_message", "replaced")
        /\ handlers' = [handlers EXCEPT ![th] = HandlerIdle]
        /\ UNCHANGED <<now, wtx, vret, mined, pbft, engines>>

InitThreads ==
    /\ consensus = [type |-> "pow", producers |-> {}]
    /\ now = 0
    /\ chain = <<GenesisBlock(0, "pow")>>
    /\ pending_transactions = <<>>
    /\ utxo_set = GenesisUtxos(0)
    /\ ret = Result("__init__", "none")
    /\ wtx = Transaction(0)
    /\ vret = Result("none", "none")
    /\ mined = None
    /\ pbft = None
    /\ handlers = [th \in Handlers |-> HandlerIdle]
    /\ NoEngine

NextThreads ==
    \/ \E th \in Handlers, data \in GossipChains : HandlerReceive(th, data)
    \/ \E th \in Handlers : HandlerCompare(th)
    \/ \E th \in Handlers : HandlerInstall(th)

SpecThreads == InitThreads /\ [][NextThreads]_vars

----------------------------------------------------------------------------
(* PracticalByzantineFaultTolerance (consensus.py) *)

\* the addresses validators register with, in the order sorted() gives them
ValidatorNames ==
    <<"validator1", "validator2", "validator3", "validator4", "validator5",
      "validator6", "validator7">>

ValidatorAddresses == {ValidatorNames[i] : i \in 1..Len(ValidatorNames)}

\* self.primary = None
NoPrimary == "None"

\* sorted(): the members of a set of addresses in the order of the sequence
\* names, which lists the addresses in increasing order
SortedFrom(names, members) ==
    LET idx == {i \in 1..Len(names) : names[i] \in members}
    IN  [k \in 1..Cardinality(idx) |->
            names[CHOOSE i \in idx : Cardinality({j \in idx : j < i}) = k - 1]]

\* sorted(list(validators))
SortedValidators(validators) == SortedFrom(ValidatorNames, validators)

\* PracticalByzantineFaultTolerance.__init__
PBFTNew ==
    [validators |-> {}, min_validators |-> MinValidators, current_view |-> 0,
     primary |-> NoPrimary, prepared_messages |-> <<>>,
     committed_messages |-> <<>>]

\* _update_primary that always takes the first validator
UpdatePrimaryIgnoringView(p) ==
    IF p.validators = {} THEN [p EXCEPT !.primary = NoPrimary]
    ELSE [p EXCEPT !.primary = SortedValidators(p.validators)[1]]

\* PracticalByzantineFaultTolerance._update_primary (Python lists count from 0)
UpdatePrimary(p) ==
    IF p.validators = {} THEN [p EXCEPT !.primary = NoPrimary]
    ELSE LET sorted_validators == SortedValidators(p.validators)
         IN  [p EXCEPT !.primary =
                 sorted_validators[(p.current_view % Len(sorted_validators)) + 1]]

\* PracticalByzantineFaultTolerance.add_validator
PBFTAddValidator(address) ==
    /\ pbft' = UpdatePrimary([pbft EXCEPT !.validators = @ \cup {address}])
    /\ ret' = Result("add_validator", "true")
    /\ UNCHANGED <<chain, pending_transactions, utxo_set, consensus, now, wtx,
                   vret, mined, handlers, engines>>

\* PracticalByzantineFaultTolerance.remove_validator
PBFTRemoveValidator(address) ==
    /\ IF address \in pbft.validators
       THEN /\ pbft' = UpdatePrimary([pbft EXCEPT !.validators = @ \ {address}])
            /\ ret' = Result("remove_validator", "true")
       ELSE /\ ret' = Result("remove_validator", "false")
            /\ UNCHANGED pbft
    /\ UNCHANGED <<chain, pending_transactions, utxo_set, consensus, now, wtx,
                   vret, mined, handlers, engines>>

\* change_view that keeps the messages of the old view
ChangeViewKeepingMessages(p) == UpdatePrimary([p EXCEPT !.current_view = @ + 1])

\* PracticalByzantineFaultTolerance.change_view, on the object
ChangeView(p) ==
    [UpdatePrimary([p EXCEPT !.current_view = @ + 1])
        EXCEPT !.prepared_messages = <<>>, !.committed_messages = <<>>]

\* PracticalByzantineFaultTolerance.change_view
PBFTChangeView ==
    /\ pbft.current_view < MaxView
    /\ pbft' = ChangeView(pbft)
    /\ ret' = Result("change_view", "none")
    /\ UNCHANGED <<chain, pending_transactions, utxo_set, consensus, now, wtx,
                   vret, mined, handlers, engines>>

\* PracticalByzantineFaultTolerance.pre_prepare (the block is not looked at)
PBFTPrePrepare(validator_address) ==
    /\ ret' = Result("pre_prepare",
                     IF validator_address # pbft.primary THEN "false"
                     ELSE IF Cardinality(pbft.validators) < pbft.min_validators
                     THEN "false"
                     ELSE "true")
    /\ UNCHANGED <<chain, pending_transactions, utxo_set, consensus, now, wtx,
                   vret, mined, pbft, handlers, engines>>

\* f = (len(self.validators) - 1) // 3, as Python floors the quotient
Faulty(p) ==
    IF Cardinality(p.validators) = 0 THEN -1
    ELSE (Cardinality(p.validators) - 1) \div 3

\* 2*f + 1
Quorum(p) == 2 * Faulty(p) + 1

\* the validators recorded for a block hash in a message map (none when the
\* hash is not a key)
Recorded(messages, block_hash) ==
    IF block_hash \in DOMAIN messages THEN messages[block_hash] ELSE {}

\* PracticalByzantineFaultTolerance.prepare: the result and the object
Prepare(p, block_hash, validator_address) ==
    IF validator_address \notin p.validators THEN [ok |-> FALSE, obj |-> p]
    ELSE [ok |-> TRUE,
          obj |-> [p EXCEPT !.prepared_messages =
                      (block_hash :> (Recorded(@, block_hash) \cup {validator_address}))
                          @@ @]]

\* commit that does not ask for the prepares
CommitUnprepared(p, block_hash, validator_address) ==
    IF validator_address \notin p.validators THEN [ok |-> FALSE, obj |-> p]
    ELSE [ok |-> TRUE,
          obj |-> [p EXCEPT !.committed_messages =
                      (block_hash :> (Recorded(@, block_hash) \cup {validator_address}))
                          @@ @]]

\* PracticalByzantineFaultTolerance.commit: the result and the object
Commit(p, block_hash, validator_address) ==
    IF validator_address \notin p.validators THEN [ok |-> FALSE, obj |-> p]
    ELSE IF \/ block_hash \notin DOMAIN p.prepared_messages
            \/ Cardinality(p.prepared_messages[block_hash]) < Quorum(p)
    THEN [ok |-> FALSE, obj |-> p]
    ELSE [ok |-> TRUE,
          obj |-> [p EXCEPT !.committed_messages =
                      (block_hash :> (Recorded(@, block_hash) \cup {validator_address}))
                          @@ @]]

\* is_committed that is content with one commit less
IsCommittedOneShort(p, block_hash) ==
    /\ block_hash \in DOMAIN p.committed_messages
    /\ Cardinality(p.committed_messages[block_hash]) >= Quorum(p) - 1

\* PracticalByzantineFaultTolerance.is_committed
IsCommitted(p, block_hash) ==
    /\ block_hash \in DOMAIN p.committed_messages
    /\ Cardinality(p.committed_messages[block_hash]) >= Quorum(p)

\* PracticalByzantineFaultTolerance.validate_block: the stored hash of the
\* block decides, whoever the validator is
PBFTValidate(p, block, validator_address) == IsCommitted(p, block.hash)

\* the blocks put to the vote: one that validators prepare and commit, and
\* one that nobody ever prepares
VotedBlock == Block(1, GenesisBlock(0, "pow").hash, 0, [transactions |-> <<>>], 0)

OtherBlock == Block(1, GenesisBlock(0, "pow").hash, MaxTime, [transactions |-> <<>>], 0)

\* the callers of prepare and commit: the validators and somebody else
Senders == ValidatorAddresses \cup {"outsider"}

\* pbft.prepare(block.hash, v)
PBFTPrepare(validator_address) ==
    LET r == Prepare(pbft, VotedBlock.hash, validator_address)
    IN  /\ pbft' = r.obj
        /\ ret' = Result("prepare", IF r.ok THEN "true" ELSE "false")
        /\ UNCHANGED <<chain, pending_transactions, utxo_set, consensus, now,
                       wtx, vret, mined, handlers, engines>>

\* pbft.commit(block.hash, v)
PBFTCommit(validator_address) ==
    LET r == Commit(pbft, VotedBlock.hash, validator_address)
    IN  /\ pbft' = r.obj
        /\ ret' = Result("commit", IF r.ok THEN "true" ELSE "false")
        /\ UNCHANGED <<chain, pending_transactions, utxo_set, consensus, now,
                       wtx, vret, mined, handlers, engines>>

\* pbft.is_committed(block.hash)
PBFTIsCommitted(block) ==
    /\ ret' = Result("is_committed",
                     IF IsCommitted(pbft, block.hash) THEN "true" ELSE "false")
    /\ UNCHANGED <<chain, pending_transactions, utxo_set, consensus, now, wtx,
                   vret, mined, pbft, handlers, engines>>

\* pbft.validate_block(block, v)
PBFTValidateBlock(block, validator_address) ==
    /\ ret' = Result("validate_block",
                     IF PBFTValidate(pbft, block, validator_address)
                     THEN "true" ELSE "false")
    /\ UNCHANGED <<chain, pending_transactions, utxo_set, consensus, now, wtx,
                   vret, mined, pbft, handlers, engines>>

\* the object after add_validator for each of the first n addresses
RECURSIVE PBFTWithValidators(_)
PBFTWithValidators(n) ==
    IF n = 0 THEN PBFTNew
    ELSE UpdatePrimary([PBFTWithValidators(n - 1)
                           EXCEPT !.validators = @ \cup {ValidatorNames[n]}])

InitPBFT ==
    /\ consensus = [type |-> "pow", producers |-> {}]
    /\ now = 0
    /\ chain = <<GenesisBlock(0, "pow")>>
    /\ pending_transactions = <<>>
    /\ utxo_set = GenesisUtxos(0)
    /\ ret = Result("__init__", "none")
    /\ wtx = Transaction(0)
    /\ vret = Result("none", "none")
    /\ mined = None
    /\ pbft = PBFTNew
    /\ handlers = <<>>
    /\ NoEngine

NextPBFT ==
    \/ \E address \in ValidatorAddresses : PBFTAddValidator(address)
    \/ \E address \in ValidatorAddresses : PBFTRemoveValidator(address)
    \/ PBFTChangeView
    \/ \E v \in ValidatorAddresses \cup {NoPrimary} : PBFTPrePrepare(v)

SpecPBFT == InitPBFT /\ [][NextPBFT]_vars

\* a PBFT network of four or of seven validators that votes on a block
InitPBFTVote ==
    /\ consensus = [type |-> "pow", producers |-> {}]
    /\ now = 0
    /\ chain = <<GenesisBlock(0, "pow")>>
    /\ pending_transactions = <<>>
    /\ utxo_set = GenesisUtxos(0)
    /\ ret = Result("__init__", "none")
    /\ wtx = Transaction(0)
    /\ vret = Result("none", "none")
    /\ mined = None
    /\ pbft \in {PBFTWithValidators(MinValidators),
                 PBFTWithValidators(Len(ValidatorNames))}
    /\ handlers = <<>>
    /\ NoEngine

NextPBFTVote ==
    \/ \E v \in Senders : PBFTPrepare(v)
    \/ \E v \in Senders : PBFTCommit(v)
    \/ \E block \in {VotedBlock, OtherBlock} : PBFTIsCommitted(block)
    \/ \E block \in {VotedBlock, OtherBlock} : PBFTValidateBlock(block, pbft.primary)
    \/ PBFTChangeView

SpecPBFTVote == InitPBFTVote /\ [][NextPBFTVote]_vars

----------------------------------------------------------------------------
(* A Block object that is built, signed and mined (block.py, ProofOfWork) *)

\* the contents blocks are built from
BlockData ==
    {[transactions |-> <<>>, message |-> "Genesis Block"],
     [transactions |-> <<TxToDict(CreateCoinbase(MiningReward, "M", 0))>>]}

\* Block(index, previous_hash, timestamp, data)
NewBlock(index, previous_hash, t, data) ==
    /\ mined' = Block(index, previous_hash, t, data, 0)
    /\ ret' = Result("Block", "none")
    /\ UNCHANGED <<chain, pending_transactions, utxo_set, consensus, now, wtx,
                   vret, pbft, handlers, engines>>

\* Block.add_signature
BlockAddSignature(validator_address, signature) ==
    /\ mined # None
    /\ mined' = [mined EXCEPT !.signatures =
                    (validator_address :> signature) @@ mined.signatures]
    /\ ret' = Result("add_signature", "none")
    /\ UNCHANGED <<chain, pending_transactions, utxo_set, consensus, now, wtx,
                   vret, pbft, handlers, engines>>

\* ProofOfWork.mine: the loop of Block.mine_block, run on the block
ProofOfWorkMine(b, difficulty) == MineBlock(b, difficulty)

\* block.mine_block(difficulty)
BlockMineBlock(difficulty) ==
    /\ mined # None
    /\ mined' = MineBlock(mined, difficulty)
    /\ ret' = Result("mine_block", "none")
    /\ UNCHANGED <<chain, pending_transactions, utxo_set, consensus, now, wtx,
                   vret, pbft, handlers, engines>>

\* ProofOfWork.mine(block, difficulty)
PowMine(difficulty) ==
    /\ mined # None
    /\ mined' = ProofOfWorkMine(mined, difficulty)
    /\ ret' = Result("ProofOfWork.mine", "none")
    /\ UNCHANGED <<chain, pending_transactions, utxo_set, consensus, now, wtx,
                   vret, pbft, handlers, engines>>

\* the previous_hash of a genesis block and of a block built on it
PreviousHashes == <<"0", GenesisBlock(0, "pow").hash>>

NextMine ==
    \/ \E index \in 0..1, t \in 0..MaxTime, data \in BlockData :
          NewBlock(index, PreviousHashes[index + 1], t, data)
    \/ \E v \in Miners : BlockAddSignature(v, Sign(PrivateKey(v), mined.hash))
    \/ \E difficulty \in 0..Difficulty : BlockMineBlock(difficulty)
    \/ \E difficulty \in 0..Difficulty : PowMine(difficulty)

SpecMine == InitStore /\ [][NextMine]_vars

----------------------------------------------------------------------------
(* Properties of Blockchain.mine_pending_transactions and add_transaction *)

\* the step is a call of mine_pending_transactions with the given result
MineReturns(result) ==
    /\ \E m \in Miners, t \in 0..MaxTime : MinePendingTransactions(m, t)
    /\ ret'.result = result

\* p and q hold the same Transaction objects in the same order: every field
\* agrees, except that an id that was unset in p may have been computed in q
SameTransactions(p, q) ==
    /\ Len(p) = Len(q)
    /\ \A i \in 1..Len(p) :
          /\ [p[i] EXCEPT !.id = None] = [q[i] EXCEPT !.id = None]
          /\ p[i].id # None => q[i].id = p[i].id

\* two entries of the mempool spend the same UTXO
DoubleSpendPending ==
    \E i, j \in 1..Len(pending_transactions) :
        /\ i < j
        /\ pending_transactions[i].inputs # <<>>
        /\ pending_transactions[j].inputs # <<>>
        /\ pending_transactions[i].inputs[1].tx_id = pending_transactions[j].inputs[1].tx_id
        /\ pending_transactions[i].inputs[1].output_index
              = pending_transactions[j].inputs[1].output_index
        /\ pending_transactions[i].outputs # pending_transactions[j].outputs

\* C1: a call of mine_pending_transactions that returns False leaves the
\* UTXO set exactly as it was before the call.
C1_MineIsAtomic == [][MineReturns("false") => utxo_set' = utxo_set]_vars

\* C2: a call of mine_pending_transactions that returns False appends no
\* block and leaves the mempool holding the same transactions in the same
\* order.
C2_FailedMineKeepsChainAndMempool ==
    [][MineReturns("false") =>
          /\ chain' = chain
          /\ SameTransactions(pending_transactions, pending_transactions')]_vars

\* C2 witness: mine_pending_transactions has returned False on a mempool
\* that holds two transactions spending the same UTXO.
C2_Witness ==
    /\ ret = Result("mine_pending_transactions", "false")
    /\ DoubleSpendPending

\* C3: after a call of mine_pending_transactions that returned True the
\* mempool is empty.
C3_MempoolEmptyAfterMine ==
    ret = Result("mine_pending_transactions", "true") => pending_transactions = <<>>

\* the node as constructed: PoW, genesis only, empty mempool
Fresh ==
    /\ consensus.type = "pow"
    /\ Len(chain) = 1
    /\ pending_transactions = <<>>
    /\ utxo_set = GenesisUtxos(0)

\* scenario S1: the owner A of the genesis output signs a transaction that
\* sends SendAmount to B and the change back to A
S1Tx == SpendTx(GenesisUtxos(0), UtxoKey(GenesisTx(0).id, 0), "B",
                PrivateKey(GenesisAddress), 0)

\* C4: in a fresh PoW node, add_transaction accepts the transaction A signed
\* (sending 10 to B, change to A); mining it for M then returns True and
\* leaves balance(B) = 10, balance(A) = 1,000,000 - 10 and balance(M) = 100.
C4_SendAndMine ==
    [][/\ (Fresh /\ AddTransaction(S1Tx)) => ret'.result = "true"
       /\ (/\ Len(chain) = 1
           /\ consensus.type = "pow"
           /\ Len(pending_transactions) = 1
           /\ [pending_transactions[1] EXCEPT !.id = None] = S1Tx
           /\ \E t \in 0..MaxTime : MinePendingTransactions("M", t))
          => /\ ret'.result = "true"
             /\ GetBalance(utxo_set', "B") = SendAmount
             /\ GetBalance(utxo_set', GenesisAddress) = GenesisAmount - SendAmount
             /\ GetBalance(utxo_set', "M") = MiningReward]_vars

\* C8: add_transaction(tx) returns False and changes nothing of the chain,
\* the mempool and the UTXO set when tx fails is_valid on the current UTXO
\* set; otherwise it returns True and only appends tx to the mempool.
C8_AddTransactionEffect ==
    [][\A tx \in SubmittedTransactions :
          AddTransaction(tx) =>
             /\ chain' = chain
             /\ utxo_set' = utxo_set
             /\ consensus' = consensus
             /\ IF IsValid(tx, utxo_set, GetPublicKey)
                THEN /\ ret'.result = "true"
                     /\ pending_transactions' = Append(pending_transactions, tx)
                ELSE /\ ret'.result = "false"
                     /\ pending_transactions' = pending_transactions]_vars

\* C8 witness: add_transaction has rejected a transaction while the mempool
\* holds one it accepted earlier.
C8_Witness ==
    /\ ret = Result("add_transaction", "false")
    /\ Len(pending_transactions) = 1

----------------------------------------------------------------------------
(* Properties of Transaction.sign_input and Transaction.is_valid *)

\* the UTXO input i of tx refers to, when it is in the set
InputKey(tx, i) == UtxoKey(tx.inputs[i].tx_id, tx.inputs[i].output_index)

\* the references of the inputs, without their signatures
InputRefs(inputs) ==
    [i \in 1..Len(inputs) |->
        [tx_id |-> inputs[i].tx_id, output_index |-> inputs[i].output_index]]

\* every input refers to an unspent UTXO of U and the inputs cover the outputs
Funded(tx, U) ==
    /\ tx.inputs # <<>>
    /\ tx.outputs # <<>>
    /\ \A i \in 1..Len(tx.inputs) :
          InputKey(tx, i) \in DOMAIN U /\ ~U[InputKey(tx, i)].is_spent
    /\ SumInputs(tx, U, Len(tx.inputs)) >= SumOutputs(tx, Len(tx.outputs))

\* the signature on input i is one sign_input(i, the owner's private key, U)
\* produced for this transaction: same inputs, outputs, timestamp and type
SignedByOwner(tx, U, i) ==
    LET sig == tx.inputs[i].signature
        owner == U[InputKey(tx, i)].owner
    IN  /\ sig # None
        /\ sig[1] = PrivateKey(owner)
        /\ sig[2].input_index = i
        /\ sig[2].utxo_owner = owner
        /\ sig[2].outputs = OutputsToDict(tx)
        /\ InputRefs(sig[2].tx_id.inputs) = InputRefs(tx.inputs)
        /\ sig[2].tx_id.outputs = OutputsToDict(tx)
        /\ sig[2].tx_id.timestamp = tx.timestamp
        /\ sig[2].tx_id.type = tx.type

\* C5: a non-coinbase transaction whose inputs are unspent UTXOs covering
\* the outputs, every input signed by sign_input with its owner's key, is
\* accepted by is_valid when the lookup returns the owners' public keys.
C5_SignThenVerify ==
    (/\ vret.op = "key_store"
     /\ wtx.type # "coinbase"
     /\ Funded(wtx, utxo_set)
     /\ \A i \in 1..Len(wtx.inputs) : SignedByOwner(wtx, utxo_set, i))
    => vret.result = "true"

\* input j carries a signature that sign_input made over other outputs
SignedOtherOutputs(tx, j) ==
    /\ tx.inputs[j].signature # None
    /\ tx.inputs[j].signature[2].outputs # OutputsToDict(tx)

\* input j carries a signature that sign_input made for another input index
SignedOtherIndex(tx, j) ==
    /\ tx.inputs[j].signature # None
    /\ tx.inputs[j].signature[2].input_index # j

\* C6: a signature made by sign_input is not accepted by is_valid (with the
\* owners' public keys) once the outputs have changed, nor on another input
\* index than the one it was made for.
C6_SignatureBinding ==
    (/\ vret.op = "key_store"
     /\ wtx.type # "coinbase"
     /\ \E j \in 1..Len(wtx.inputs) :
           SignedOtherOutputs(wtx, j) \/ SignedOtherIndex(wtx, j))
    => vret.result = "false"

\* C6 witness: is_valid has been called, with the owners' public keys, on a
\* funded transaction whose owner-signed outputs were rewritten and whose
\* second input carries the signature made for the first.
C6_Witness ==
    /\ vret = Result("key_store", "false")
    /\ wtx.type = "regular"
    /\ Funded(wtx, utxo_set)
    /\ Len(wtx.inputs) = 2
    /\ SignedOtherOutputs(wtx, 1)
    /\ wtx.inputs[1].signature[1] = PrivateKey(utxo_set[InputKey(wtx, 1)].owner)
    /\ SignedOtherIndex(wtx, 2)

\* C7: is_valid returns True for every coinbase transaction; for any other
\* transaction it returns True only if there is an input and an output,
\* every input refers to an unspent UTXO of the set, and the amounts of the
\* inputs sum to at least the amounts of the outputs; and a call of is_valid
\* leaves the UTXO set as it was.
C7_IsValidContract ==
    /\ [](vret.op # "none" =>
            /\ wtx.type = "coinbase" => vret.result = "true"
            /\ (wtx.type # "coinbase" /\ vret.result = "true")
                  => Funded(wtx, utxo_set))
    /\ [][(\E name \in Providers : WalletIsValid(name))
             => utxo_set' = utxo_set]_vars

\* C7 witness: is_valid has returned True for a regular transaction with
\* two inputs.
C7_Witness ==
    /\ vret.result = "true"
    /\ wtx.type = "regular"
    /\ Len(wtx.inputs) = 2

----------------------------------------------------------------------------
(* Properties of the UTXO set *)

\* C9: a UTXO entry that is marked spent stays in the set and stays spent.
C9_SpentStaysSpent ==
    [][\A k \in DOMAIN utxo_set :
          utxo_set[k].is_spent =>
             k \in DOMAIN utxo_set' /\ utxo_set'[k].is_spent]_vars

\* the transactions of blocks 1..h of the chain applied to U, left to right
RECURSIVE FoldTransactions(_, _, _)
FoldTransactions(txs, U, i) ==
    IF i > Len(txs) THEN U
    ELSE LET tx == TxFromDict(txs[i])
         IN  FoldTransactions(txs,
                 AddOutputs(SpendInputs(U, tx, Len(tx.inputs)), tx, Len(tx.outputs)),
                 i + 1)

RECURSIVE FoldChain(_, _, _)
FoldChain(ch, U, h) ==
    IF h = 0 THEN U
    ELSE FoldTransactions(ch[h].data.transactions, FoldChain(ch, U, h - 1), 1)

\* C10: the UTXO set is the fold, from the empty set, of the transactions
\* of the chain; in particular the genesis block contains the coinbase that
\* pays the bootstrap output to GENESIS_ADDRESS.
C10_UtxoSetIsFoldOfChain ==
    /\ utxo_set = FoldChain(chain, <<>>, Len(chain))
    /\ \E i \in 1..Len(chain[1].data.transactions) :
          /\ chain[1].data.transactions[i].type = "coinbase"
          /\ chain[1].data.transactions[i].outputs =
                <<[amount |-> GenesisAmount, recipient_address |-> GenesisAddress]>>

----------------------------------------------------------------------------
(* Properties of is_chain_valid, of the hash chain and of mining *)

\* C11: every chain the node produces (by add_transaction, create_transaction
\* and mine_pending_transactions from construction, whatever else was called
\* in between) passes is_chain_valid: the call would return true in every
\* reachable state.
C11_ProducedChainIsValid == ChainValidFrom(chain, utxo_set, 2).ok

\* a block was mined and is_chain_valid was called on the chain
C11_Witness ==
    /\ Len(chain) = 2
    /\ ret = Result("is_chain_valid", "true")

\* C12: in every reachable state of a node that mines and installs chains
\* received through gossip, every block after the genesis block points at the
\* hash of the block before it and stores the hash of its own index,
\* previous_hash, timestamp, data and nonce.
C12_HashChain ==
    \A i \in 2..Len(chain) :
        /\ chain[i].previous_hash = chain[i - 1].hash
        /\ chain[i].hash = BlockCalculateHash(chain[i])

\* a three-block chain received through gossip has replaced the node's chain
C12_Witness ==
    /\ ret = Result("handle_message", "replaced")
    /\ Len(chain) = 3

\* C13: under PoW the hash of every block of the node's chain begins with
\* `difficulty` '0' characters, also after a received chain was installed.
C13_ProofOfWorkOnEveryBlock ==
    consensus.type = "pow" =>
        \A i \in 1..Len(chain) : StartsWithZeros(chain[i].hash, Difficulty)

\* C15: a `blockchain` message replaces the node's blockchain by the received
\* one exactly when the received chain is strictly longer than the node's and
\* received.is_chain_valid() holds; otherwise (shorter, equal length or
\* invalid) the node's chain, mempool and UTXO set stay as they are.
C15_LongestValidChainRule ==
    [][\A data \in GossipChains :
          HandleBlockchain(data) =>
            LET received == FromJson(data)
                valid == ChainValidFrom(received.chain, received.utxo_set, 2)
            IN  IF Len(received.chain) > Len(chain) /\ valid.ok
                THEN /\ chain' = received.chain
                     /\ pending_transactions' = received.pending_transactions
                     /\ utxo_set' = valid.utxos
                ELSE UNCHANGED <<chain, pending_transactions, utxo_set>>]_vars

\* the node's one-block chain was replaced by a received two-block chain
C15_Witness ==
    /\ ret = Result("handle_message", "replaced")
    /\ Len(chain) = 2

\* a chain that follows the rules of the network: hash-linked, mined, and
\* whose transactions spend unspent outputs with their owners' signatures
\* (the chains an honest peer holds)
C16_PeerChain(data) == data \in HonestChains

C18_PassesIsValid(entry, U) ==
    /\ entry.kind = "Transaction"
    /\ IsValid(entry, U, GetPublicKey)

\* the entry was in the mempool before the step (to_dict may have filled in
\* its id since)
C18_HeldBefore(entry) ==
    \E j \in 1..Len(pending_transactions) :
        /\ pending_transactions[j].kind = entry.kind
        /\ IF entry.kind = "dict" THEN pending_transactions[j] = entry
           ELSE SameTransactions(<<pending_transactions[j]>>, <<entry>>)

\* C18: every entry of the mempool passed is_valid against the node's UTXO
\* set when it was inserted: a step of add_transaction, of
\* mine_pending_transactions or of a `new_transaction` message puts into the
\* mempool only entries that pass is_valid in the state they are inserted in.
C18_MempoolEntriesWereValidated ==
    [][(\/ \E tx \in SubmittedTransactions : AddTransaction(tx)
        \/ \E m \in Miners, t \in 0..MaxTime : MinePendingTransactions(m, t)
        \/ \E d \in GossipTransactions : HandleNewTransaction(d))
       => \A i \in 1..Len(pending_transactions') :
             \/ C18_HeldBefore(pending_transactions'[i])
             \/ C18_PassesIsValid(pending_transactions'[i], utxo_set)
             \/ C18_PassesIsValid(pending_transactions'[i], utxo_set')]_vars

\* what mining must leave alone
C14_Frame(b) ==
    <<b.index, b.previous_hash, b.timestamp, b.data, b.signatures, b.merkle_root>>

\* C14: mining a block at difficulty d (Block.mine_block or ProofOfWork.mine)
\* changes only its nonce and hash: afterwards the hash is calculate_hash()
\* for the final nonce and begins with d '0' characters; index,
\* previous_hash, timestamp, data, signatures and merkle_root are as before.
C14_MineChangesOnlyNonceAndHash ==
    [][\A d \in 0..Difficulty :
          (BlockMineBlock(d) \/ PowMine(d))
          => /\ mined'.hash = BlockCalculateHash(mined')
             /\ StartsWithZeros(mined'.hash, d)
             /\ C14_Frame(mined') = C14_Frame(mined)]_vars

\* a signed block was mined at full difficulty and the nonce had to move
C14_Witness ==
    /\ ret.op \in {"mine_block", "ProofOfWork.mine"}
    /\ mined # None
    /\ mined.nonce > 0
    /\ mined.signatures # <<>>
    /\ StartsWithZeros(mined.hash, Difficulty)

\* C19: the block a successful mine_pending_transactions(miner) appends has
\* index = the chain length before and previous_hash = the hash of the tip
\* before; its transactions are the coinbase of mining_reward to the miner
\* followed by the mempool of the call, in mempool order; and the UTXO set
\* afterwards is the one obtained by applying them in that order.
C19_MinedBlockContents ==
    [][\A m \in Miners, t \in 0..MaxTime :
          (MinePendingTransactions(m, t)
              /\ ret' = Result("mine_pending_transactions", "true"))
          => LET b == chain'[Len(chain')]
                 txs == [i \in 1..Len(b.data.transactions) |->
                            TxFromDict(b.data.transactions[i])]
             IN  /\ chain' = Append(chain, b)
                 /\ b.index = Len(chain)
                 /\ b.previous_hash = chain[Len(chain)].hash
                 /\ Len(txs) = 1 + Len(pending_transactions)
                 /\ txs[1] = CreateCoinbase(MiningReward, m, now)
                 /\ SameTransactions(pending_transactions, SubSeq(txs, 2, Len(txs)))
                 /\ utxo_set' = FoldTransactions(b.data.transactions, utxo_set, 1)]_vars

\* a block was mined from a mempool of two different transactions
C19_Witness ==
    /\ ret = Result("mine_pending_transactions", "true")
    /\ Len(chain) = 2
    /\ Len(chain[2].data.transactions) = 3
    /\ chain[2].data.transactions[2] # chain[2].data.transactions[3]

\* C17: whatever the interleaving of the handler threads, a received chain is
\* installed only over a strictly shorter one: the length of the node's
\* chain never decreases.
C17_ChainNeverShrinks == [][Len(chain') >= Len(chain)]_vars

\* C20: PBFT, after any sequence of add_validator, remove_validator and
\* change_view: pre_prepare(block, v) is accepted exactly when there are at
\* least min_validators = 4 validators and v is
\* sorted(validators)[current_view mod n].
C20_PrePrepareOnlyByPrimary ==
    [][\A v \in ValidatorAddresses \cup {NoPrimary} :
          PBFTPrePrepare(v) =>
            LET n == Cardinality(pbft.validators)
            IN  (ret'.result = "true") <=>
                    /\ n >= 4
                    /\ v = SortedValidators(pbft.validators)[(pbft.current_view % n) + 1]]_vars

\* a pre_prepare was accepted in a later view, after a validator had left
C20_Witness ==
    /\ ret = Result("pre_prepare", "true")
    /\ pbft.current_view > 0
    /\ Cardinality(pbft.validators) = 4
    /\ "validator1" \notin pbft.validators

----------------------------------------------------------------------------
(* consensus.py: the consensus objects used on their own *)

\* the Blockchain the objects are constructed with: fresh, and left alone
NodeAtGenesis ==
    /\ consensus = [type |-> "pow", producers |-> {}]
    /\ now = 0
    /\ chain = <<GenesisBlock(0, "pow")>>
    /\ pending_transactions = <<>>
    /\ utxo_set = GenesisUtxos(0)
    /\ ret = Result("__init__", "none")
    /\ wtx = Transaction(0)
    /\ vret = Result("none", "none")
    /\ mined = None
    /\ pbft = None
    /\ handlers = <<>>

(* DelegatedProofOfStake *)

\* self.delegate_count
DelegateCount == 21

MaxWeight == 3      \* vote stops when a delegate would hold more than this
MaxRound == 22      \* get_next_delegate stops at this round

\* the addresses that receive votes
DelegateNames ==
    <<"d01", "d02", "d03", "d04", "d05", "d06", "d07", "d08", "d09", "d10",
      "d11", "d12", "d13", "d14", "d15", "d16", "d17", "d18", "d19", "d20",
      "d21", "d22">>

\* DelegatedProofOfStake.__init__; the dict self.delegates is the sequence
\* of its items in insertion order
DPoSNew ==
    [delegates |-> <<>>, active_delegates |-> <<>>,
     delegate_count |-> DelegateCount, round |-> 0]

\* the keys of the dict
Keys(items) == {items[i].address : i \in DOMAIN items}

\* the place of a key among the items
Position(items, address) == CHOOSE i \in DOMAIN items : items[i].address = address

\* sorted(items, key=lambda x: x[1], reverse=True): most votes first, items
\* of equal votes in the order of the dict (the sort is stable)
SortedDelegates(items) ==
    LET Before(i, j) == \/ items[i].votes > items[j].votes
                        \/ items[i].votes = items[j].votes /\ i < j
        Rank(i) == Cardinality({j \in DOMAIN items : Before(j, i)})
    IN  [k \in DOMAIN items |->
            items[CHOOSE i \in DOMAIN items : Rank(i) = k - 1]]

\* the same with the fewest votes first
UpdateActiveDelegatesAscending(d) ==
    LET items == d.delegates
        Before(i, j) == \/ items[i].votes < items[j].votes
                        \/ items[i].votes = items[j].votes /\ i < j
        Rank(i) == Cardinality({j \in DOMAIN items : Before(j, i)})
        n == IF Len(items) < d.delegate_count THEN Len(items) ELSE d.delegate_count
    IN  [d EXCEPT !.active_delegates =
            [k \in 1..n |-> items[CHOOSE i \in DOMAIN items : Rank(i) = k - 1].address]]

\* DelegatedProofOfStake._update_active_delegates
UpdateActiveDelegates(d) ==
    LET s == SortedDelegates(d.delegates)
        n == IF Len(s) < d.delegate_count THEN Len(s) ELSE d.delegate_count
    IN  [d EXCEPT !.active_delegates = [k \in 1..n |-> s[k].address]]

\* DelegatedProofOfStake.vote
Vote(d, voter_address, delegate_address, vote_weight) ==
    LET items == d.delegates
        voted == IF delegate_address \in Keys(items)
                 THEN [items EXCEPT ![Position(items, delegate_address)].votes =
                                        @ + vote_weight]
                 ELSE Append(items, [address |-> delegate_address,
                                     votes |-> vote_weight])
    IN  UpdateActiveDelegates([d EXCEPT !.delegates = voted])

\* get_next_delegate that returns the delegate and leaves the round alone
GetNextDelegateSameRound(d) ==
    IF Len(d.active_delegates) = 0 THEN [result |-> "none", obj |-> d]
    ELSE [result |-> d.active_delegates[(d.round % Len(d.active_delegates)) + 1],
          obj |-> d]

\* DelegatedProofOfStake.get_next_delegate: the result and the object
GetNextDelegate(d) ==
    IF Len(d.active_delegates) = 0 THEN [result |-> "none", obj |-> d]
    ELSE [result |-> d.active_delegates[(d.round % Len(d.active_delegates)) + 1],
          obj |-> [d EXCEPT !.round = @ + 1]]

\* the votes a delegate holds, 0 for an address that has none
VotesOf(d, address) ==
    IF address \in Keys(d.delegates)
    THEN d.delegates[Position(d.delegates, address)].votes
    ELSE 0

\* dpos.vote(voter, delegate, weight)
DPoSVote(voter_address, delegate_address, vote_weight) ==
    /\ VotesOf(dpos, delegate_address) + vote_weight <= MaxWeight
    /\ dpos' = Vote(dpos, voter_address, delegate_address, vote_weight)
    /\ ret' = Result("vote", "none")
    /\ UNCHANGED <<ledger, now, mined, pbft, pos, poa, hybrid, sharding>>

\* dpos.get_next_delegate()
DPoSGetNextDelegate ==
    /\ dpos.round < MaxRound
    /\ LET r == GetNextDelegate(dpos)
       IN  /\ dpos' = r.obj
           /\ ret' = Result("get_next_delegate", r.result)
    /\ UNCHANGED <<ledger, now, mined, pbft, pos, poa, hybrid, sharding>>

\* the object after vote("voter1", d, 2) for the first n addresses
RECURSIVE DPoSVoted(_)
DPoSVoted(n) ==
    IF n = 0 THEN DPoSNew
    ELSE Vote(DPoSVoted(n - 1), "voter1", DelegateNames[n], 2)

\* the delegates voted for from here on: one of the first twenty and the two
\* after them
Candidates ==
    {DelegateNames[1], DelegateNames[DelegateCount], DelegateNames[DelegateCount + 1]}

\* a new object, or one in which delegate_count - 1 delegates hold two votes
InitDPoS ==
    /\ NodeAtGenesis
    /\ dpos \in {DPoSNew, DPoSVoted(DelegateCount - 1)}
    /\ pos = None
    /\ poa = None
    /\ hybrid = None
    /\ sharding = None

NextDPoS ==
    \/ \E delegate_address \in Candidates, vote_weight \in {1, 2} :
          DPoSVote("voter1", delegate_address, vote_weight)
    \/ DPoSGetNextDelegate

SpecDPoS == InitDPoS /\ [][NextDPoS]_vars

(* ProofOfStake *)

\* self.min_stake
MinStake == 10

\* ProofOfStake.__init__ at time t; the dict self.validators is a function
\* from addresses to stakes
PoSNew(t) == [validators |-> <<>>, last_block_time |-> t, min_stake |-> MinStake]

\* register_validator that takes any stake
RegisterValidatorAnyStake(p, address, stake_amount) ==
    [ok |-> TRUE,
     obj |-> [p EXCEPT !.validators = (address :> stake_amount) @@ @]]

\* ProofOfStake.register_validator: the result and the object
RegisterValidator(p, address, stake_amount) ==
    IF stake_amount >= p.min_stake
    THEN [ok |-> TRUE,
          obj |-> [p EXCEPT !.validators = (address :> stake_amount) @@ @]]
    ELSE [ok |-> FALSE, obj |-> p]

\* ProofOfStake.remove_validator: the result and the object
RemoveValidator(p, address) ==
    IF address \in DOMAIN p.validators
    THEN [ok |-> TRUE,
          obj |-> [p EXCEPT !.validators =
                      [a \in (DOMAIN @) \ {address} |-> @[a]]]]
    ELSE [ok |-> FALSE, obj |-> p]

\* ProofOfStake.validate_block
PoSValidate(p, block, validator_address) ==
    IF validator_address \notin DOMAIN p.validators THEN FALSE
    ELSE IF block.hash # BlockCalculateHash(block) THEN FALSE
    ELSE TRUE

\* a block whose hash attribute is not the digest of its fields
ForgedBlock == [VotedBlock EXCEPT !.hash = OtherBlock.hash]

StakeHolders == {"staker1", "staker2", "staker3"}

\* stakes below, at and above the minimum
Stakes == {MinStake - 1, MinStake, MinStake + 1}

Bool(b) == IF b THEN "true" ELSE "false"

\* pos.register_validator(address, stake)
PoSRegisterValidator(address, stake_amount) ==
    LET r == RegisterValidator(pos, address, stake_amount)
    IN  /\ pos' = r.obj
        /\ ret' = Result("register_validator", Bool(r.ok))
        /\ UNCHANGED <<ledger, now, mined, pbft, dpos, poa, hybrid, sharding>>

\* pos.remove_validator(address)
PoSRemoveValidator(address) ==
    LET r == RemoveValidator(pos, address)
    IN  /\ pos' = r.obj
        /\ ret' = Result("remove_validator", Bool(r.ok))
        /\ UNCHANGED <<ledger, now, mined, pbft, dpos, poa, hybrid, sharding>>

\* pos.validate_block(block, v)
PoSValidateBlock(block, validator_address) ==
    /\ ret' = Result("validate_block", Bool(PoSValidate(pos, block, validator_address)))
    /\ UNCHANGED <<ledger, now, mined, pbft, engines>>

InitPoS ==
    /\ NodeAtGenesis
    /\ pos = PoSNew(0)
    /\ dpos = None
    /\ poa = None
    /\ hybrid = None
    /\ sharding = None

NextPoS ==
    \/ \E address \in StakeHolders, stake_amount \in Stakes :
          PoSRegisterValidator(address, stake_amount)
    \/ \E address \in StakeHolders : PoSRemoveValidator(address)
    \/ \E block \in {VotedBlock, ForgedBlock}, v \in StakeHolders :
          PoSValidateBlock(block, v)

SpecPoS == InitPoS /\ [][NextPoS]_vars

(* ProofOfAuthority *)

\* self.block_time, in seconds
BlockTime == 15

MaxClock == 46      \* the clock of the PoA runs stops here

\* the addresses that are made authorities, in sorted order
AuthorityNames == <<"authority1", "authority2">>

\* ProofOfAuthority.__init__ at time t
PoANew(t) ==
    [authorities |-> {}, block_time |-> BlockTime, last_block_time |-> t,
     current_authority_index |-> 0]

\* sorted(list(self.authorities))
SortedAuthorities(p) == SortedFrom(AuthorityNames, p.authorities)

\* get_next_authority without the wait for block_time
GetNextAuthorityAtOnce(p, current_time) ==
    IF p.authorities = {} THEN [result |-> "none", obj |-> p]
    ELSE LET sorted_authorities == SortedFrom(AuthorityNames, p.authorities)
         IN  [result |-> sorted_authorities[
                            (p.current_authority_index % Len(sorted_authorities)) + 1],
              obj |-> [p EXCEPT !.current_authority_index = @ + 1,
                                !.last_block_time = current_time]]

\* ProofOfAuthority.get_next_authority when time.time() reads current_time:
\* the result and the object
GetNextAuthority(p, current_time) ==
    IF p.authorities = {} THEN [result |-> "none", obj |-> p]
    ELSE IF current_time - p.last_block_time < p.block_time
    THEN [result |-> "none", obj |-> p]
    ELSE LET sorted_authorities == SortedAuthorities(p)
         IN  [result |-> sorted_authorities[
                            (p.current_authority_index % Len(sorted_authorities)) + 1],
              obj |-> [p EXCEPT !.current_authority_index = @ + 1,
                                !.last_block_time = current_time]]

\* poa.add_authority(address)
PoAAddAuthority(address) ==
    /\ poa' = [poa EXCEPT !.authorities = @ \cup {address}]
    /\ ret' = Result("add_authority", "true")
    /\ UNCHANGED <<ledger, now, mined, pbft, pos, dpos, hybrid, sharding>>

\* poa.remove_authority(address)
PoARemoveAuthority(address) ==
    /\ poa' = [poa EXCEPT !.authorities = @ \ {address}]
    /\ ret' = Result("remove_authority", Bool(address \in poa.authorities))
    /\ UNCHANGED <<ledger, now, mined, pbft, pos, dpos, hybrid, sharding>>

\* poa.get_next_authority()
PoAGetNextAuthority ==
    LET r == GetNextAuthority(poa, now)
    IN  /\ poa' = r.obj
        /\ ret' = Result("get_next_authority", r.result)
        /\ UNCHANGED <<ledger, now, mined, pbft, pos, dpos, hybrid, sharding>>

\* seconds pass between two calls
PoAWait(seconds) ==
    /\ now + seconds <= MaxClock
    /\ now' = now + seconds
    /\ UNCHANGED <<chain, pending_transactions, utxo_set, consensus, ret,
                   wtx, vret, others>>

InitPoA ==
    /\ NodeAtGenesis
    /\ poa = PoANew(0)
    /\ pos = None
    /\ dpos = None
    /\ hybrid = None
    /\ sharding = None

NextPoA ==
    \/ \E address \in {AuthorityNames[i] : i \in DOMAIN AuthorityNames} :
          PoAAddAuthority(address)
    \/ \E address \in {AuthorityNames[i] : i \in DOMAIN AuthorityNames} :
          PoARemoveAuthority(address)
    \/ PoAGetNextAuthority
    \/ \E seconds \in {1, BlockTime - 1} : PoAWait(seconds)

SpecPoA == InitPoA /\ [][NextPoA]_vars

(* HybridConsensus *)

\* self.difficulty of HybridConsensus
HybridDifficulty == 2

\* HybridConsensus.__init__ at time t (the two weights are never read)
HybridNew(t) == [pos |-> PoSNew(t), difficulty |-> HybridDifficulty]

\* HybridConsensus.mine_block: the result and the block as mining leaves it
HybridMine(h, block, validator_address) ==
    LET b == ProofOfWorkMine(block, h.difficulty)
    IN  [ok |-> PoSValidate(h.pos, b, validator_address), block |-> b]

\* validate_block without the proof-of-work component
HybridValidateStakeOnly(h, block, validator_address) ==
    PoSValidate(h.pos, block, validator_address)

\* HybridConsensus.validate_block
HybridValidate(h, block, validator_address) ==
    IF ~StartsWithZeros(block.hash, h.difficulty) THEN FALSE
    ELSE IF ~PoSValidate(h.pos, block, validator_address) THEN FALSE
    ELSE TRUE

\* the blocks handed to validate_block: the block at hand and a block whose
\* hash attribute is not its digest
HybridBlocks == {ForgedBlock} \cup (IF mined = None THEN {} ELSE {mined})

HybridValidators == {"staker1", "staker2"}

\* hybrid.register_validator(address, stake)
HybridRegisterValidator(address, stake_amount) ==
    LET r == RegisterValidator(hybrid.pos, address, stake_amount)
    IN  /\ hybrid' = [hybrid EXCEPT !.pos = r.obj]
        /\ ret' = Result("hybrid.register_validator", Bool(r.ok))
        /\ UNCHANGED <<ledger, now, mined, pbft, pos, dpos, poa, sharding>>

\* hybrid.mine_block(block, v) on the block at hand
HybridMineBlock(validator_address) ==
    /\ mined # None
    /\ LET r == HybridMine(hybrid, mined, validator_address)
       IN  /\ mined' = r.block
           /\ ret' = Result("hybrid.mine_block", Bool(r.ok))
    /\ UNCHANGED <<ledger, now, pbft, engines>>

\* hybrid.validate_block(block, v)
HybridValidateBlock(block, validator_address) ==
    /\ block # None
    /\ ret' = Result("hybrid.validate_block",
                     Bool(HybridValidate(hybrid, block, validator_address)))
    /\ UNCHANGED <<ledger, now, mined, pbft, engines>>

InitHybrid ==
    /\ NodeAtGenesis
    /\ hybrid = HybridNew(0)
    /\ pos = None
    /\ dpos = None
    /\ poa = None
    /\ sharding = None

NextHybrid ==
    \/ \E index \in 0..1, t \in 0..MaxTime, data \in BlockData :
          NewBlock(index, PreviousHashes[index + 1], t, data)
    \/ \E address \in HybridValidators, stake_amount \in {MinStake - 1, MinStake} :
          HybridRegisterValidator(address, stake_amount)
    \/ \E v \in HybridValidators : HybridMineBlock(v)
    \/ \E v \in HybridValidators : HybridValidateBlock(mined, v)
    \/ \E v \in HybridValidators : HybridValidateBlock(ForgedBlock, v)

SpecHybrid == InitHybrid /\ [][NextHybrid]_vars

(* ShardingConsensus *)

\* the default of shard_count
ShardCount == 4

\* ShardingConsensus.__init__ at time t; the dict validator_to_shard is a
\* function from addresses to shard ids
ShardingNew(t) ==
    [shard_count |-> ShardCount,
     shards |-> [k \in 1..ShardCount |->
                    [validators |-> {}, consensus |-> PoSNew(t)]],
     global_consensus |-> PoSNew(t),
     validator_to_shard |-> <<>>]

\* len(shard['validators']) of shard shard_id (from 0)
ShardSize(s, shard_id) == Cardinality(s.shards[shard_id + 1].validators)

\* a smallest shard, the last of them
FewestShardLast(s) ==
    CHOOSE k \in 0..(Len(s.shards) - 1) :
        \A j \in 0..(Len(s.shards) - 1) :
            /\ ShardSize(s, k) <= ShardSize(s, j)
            /\ ShardSize(s, j) = ShardSize(s, k) => j <= k

\* shard_sizes.index(min(shard_sizes)): the first of the smallest shards
FewestShard(s) ==
    CHOOSE k \in 0..(Len(s.shards) - 1) :
        \A j \in 0..(Len(s.shards) - 1) :
            /\ ShardSize(s, k) <= ShardSize(s, j)
            /\ ShardSize(s, j) = ShardSize(s, k) => k <= j

\* "Validator assigned to shard {shard_id}" for shard_id = 0, 1, ...
AssignedMessages ==
    <<"Validator assigned to shard 0", "Validator assigned to shard 1",
      "Validator assigned to shard 2", "Validator assigned to shard 3">>

\* ShardingConsensus.assign_validator with a shard_id: the result, the
\* message and the object
AssignValidator(s, address, stake_amount, shard_id) ==
    IF shard_id < 0 \/ shard_id >= s.shard_count
    THEN [ok |-> FALSE, message |-> "Invalid shard ID", obj |-> s]
    ELSE LET r == RegisterValidator(s.shards[shard_id + 1].consensus,
                                    address, stake_amount)
         IN  IF r.ok
             THEN [ok |-> TRUE, message |-> AssignedMessages[shard_id + 1],
                   obj |-> [s EXCEPT
                       !.shards[shard_id + 1] =
                           [validators |-> @.validators \cup {address},
                            consensus |-> r.obj],
                       !.validator_to_shard = (address :> shard_id) @@ @,
                       !.global_consensus =
                           RegisterValidator(@, address, stake_amount).obj]]
             ELSE [ok |-> FALSE, message |-> "Failed to register validator",
                   obj |-> s]

\* ShardingConsensus.assign_validator with shard_id left out
AssignValidatorAuto(s, address, stake_amount) ==
    AssignValidator(s, address, stake_amount, FewestShard(s))

ShardValidators == {"validator1", "validator2"}

\* sharding.assign_validator(address, stake, shard_id)
ShardingAssignValidator(address, stake_amount, shard_id) ==
    LET r == AssignValidator(sharding, address, stake_amount, shard_id)
    IN  /\ sharding' = r.obj
        /\ ret' = Result("assign_validator", r.message)
        /\ UNCHANGED <<ledger, now, mined, pbft, pos, dpos, poa, hybrid>>

\* sharding.assign_validator(address, stake)
ShardingAssignValidatorAuto(address, stake_amount) ==
    LET r == AssignValidatorAuto(sharding, address, stake_amount)
    IN  /\ sharding' = r.obj
        /\ ret' = Result("assign_validator", r.message)
        /\ UNCHANGED <<ledger, now, mined, pbft, pos, dpos, poa, hybrid>>

\* validate_block that asks the registry of the shard named without looking
\* at validator_to_shard
ShardingValidateAnyShard(s, block, validator_address, shard_id) ==
    IF shard_id < 0 \/ shard_id >= s.shard_count THEN FALSE
    ELSE PoSValidate(s.shards[shard_id + 1].consensus, block, validator_address)

\* ShardingConsensus.validate_block with a shard_id: the first component of
\* the result
ShardingValidate(s, block, validator_address, shard_id) ==
    IF validator_address \in DOMAIN s.validator_to_shard
    THEN IF s.validator_to_shard[validator_address] # shard_id THEN FALSE
         ELSE PoSValidate(s.shards[shard_id + 1].consensus, block,
                          validator_address)
    ELSE FALSE

\* ShardingConsensus.validate_block with shard_id left out
ShardingValidateGlobal(s, block, validator_address) ==
    IF validator_address \in DOMAIN s.validator_to_shard
    THEN PoSValidate(s.global_consensus, block, validator_address)
    ELSE FALSE

\* sharding.validate_block(block, v, shard_id)
ShardingValidateBlock(block, validator_address, shard_id) ==
    /\ ret' = Result("sharding.validate_block",
                     Bool(ShardingValidate(sharding, block, validator_address,
                                           shard_id)))
    /\ UNCHANGED <<ledger, now, mined, pbft, engines>>

\* sharding.validate_block(block, v)
ShardingValidateBlockGlobal(block, validator_address) ==
    /\ ret' = Result("sharding.validate_block (global)",
                     Bool(ShardingValidateGlobal(sharding, block,
                                                 validator_address)))
    /\ UNCHANGED <<ledger, now, mined, pbft, engines>>

InitSharding ==
    /\ NodeAtGenesis
    /\ sharding = ShardingNew(0)
    /\ pos = None
    /\ dpos = None
    /\ poa = None
    /\ hybrid = None

NextSharding ==
    \/ \E address \in ShardValidators, stake_amount \in {MinStake - 1, MinStake},
          shard_id \in -1..ShardCount :
          ShardingAssignValidator(address, stake_amount, shard_id)
    \/ \E address \in ShardValidators, stake_amount \in {MinStake - 1, MinStake} :
          ShardingAssignValidatorAuto(address, stake_amount)
    \/ \E block \in {VotedBlock, ForgedBlock}, v \in ShardValidators,
          shard_id \in -1..ShardCount :
          ShardingValidateBlock(block, v, shard_id)
    \/ \E block \in {VotedBlock, ForgedBlock}, v \in ShardValidators :
          ShardingValidateBlockGlobal(block, v)

SpecSharding == InitSharding /\ [][NextSharding]_vars

----------------------------------------------------------------------------
(* block.py, security.py: Merkle roots *)

MaxLeaves == 3      \* transactions of a block whose Merkle root is taken

\* hashlib.sha256(json.dumps(tx, sort_keys=True).encode()).hexdigest()
Sha256Json(tx) == [json |-> tx]

\* hashlib.sha256((left + right).encode()).hexdigest()
Sha256Concat(left, right) == [concat |-> <<left, right>>]

\* hashlib.sha256("".encode()).hexdigest()
Sha256Empty == [concat |-> <<>>]

\* isinstance(tx, str) and len(tx) == 64
IsHexHash(tx) == "json" \in DOMAIN tx \/ "concat" \in DOMAIN tx

\* the first loop: an entry that is a hash already is taken as it is
LeafHashes(transactions) ==
    [i \in DOMAIN transactions |->
        IF IsHexHash(transactions[i]) THEN transactions[i]
        ELSE Sha256Json(transactions[i])]

\* one level of the tree over a level of even length
RECURSIVE NextLevel(_)
NextLevel(tx_hashes) ==
    IF Len(tx_hashes) = 0 THEN <<>>
    ELSE <<Sha256Concat(tx_hashes[1], tx_hashes[2])>>
            \o NextLevel(SubSeq(tx_hashes, 3, Len(tx_hashes)))

\* the while loop of both implementations, for a level that is not empty
RECURSIVE MerkleTree(_)
MerkleTree(tx_hashes) ==
    IF Len(tx_hashes) <= 1 THEN tx_hashes[1]
    ELSE MerkleTree(NextLevel(
            IF Len(tx_hashes) % 2 # 0
            THEN Append(tx_hashes, tx_hashes[Len(tx_hashes)])
            ELSE tx_hashes))

\* Block.calculate_merkle_root: what it returns
BlockMerkleRoot(block) ==
    IF "transactions" \notin DOMAIN block.data THEN None
    ELSE IF block.data.transactions = <<>> THEN None
    ELSE MerkleTree(LeafHashes(block.data.transactions))

\* SecurityManager.calculate_merkle_root
SecurityMerkleRoot(transactions) ==
    IF transactions = <<>> THEN Sha256Empty
    ELSE MerkleTree(LeafHashes(transactions))

\* the entries of the lists: three transactions and the hash of one
MerkleEntries ==
    {[tx |-> "a"], [tx |-> "b"], [tx |-> "c"], Sha256Json([tx |-> "a"])}

RECURSIVE ListsUpTo(_, _)
ListsUpTo(S, n) ==
    IF n = 0 THEN {<<>>}
    ELSE LET shorter == ListsUpTo(S, n - 1)
         IN  shorter \cup {Append(l, x) : l \in shorter, x \in S}

\* block.calculate_merkle_root(): merkle_root is assigned when the list is
\* not empty
BlockCalculateMerkleRoot ==
    /\ mined' = IF BlockMerkleRoot(mined) = None THEN mined
                ELSE [mined EXCEPT !.merkle_root = BlockMerkleRoot(mined)]
    /\ ret' = Result("block.calculate_merkle_root", BlockMerkleRoot(mined))
    /\ UNCHANGED <<ledger, now, pbft, engines>>

\* SecurityManager().calculate_merkle_root(block.data["transactions"])
SecurityCalculateMerkleRoot ==
    /\ "transactions" \in DOMAIN mined.data
    /\ ret' = Result("security.calculate_merkle_root",
                     SecurityMerkleRoot(mined.data.transactions))
    /\ UNCHANGED <<ledger, now, mined, pbft, engines>>

\* a block over a list of up to MaxLeaves entries, or one without
\* transactions in its data
InitMerkle ==
    /\ consensus = [type |-> "pow", producers |-> {}]
    /\ now = 0
    /\ chain = <<GenesisBlock(0, "pow")>>
    /\ pending_transactions = <<>>
    /\ utxo_set = GenesisUtxos(0)
    /\ ret = Result("__init__", "none")
    /\ wtx = Transaction(0)
    /\ vret = Result("none", "none")
    /\ mined \in {Block(1, GenesisBlock(0, "pow").hash, 0, [transactions |-> l], 0) :
                     l \in ListsUpTo(MerkleEntries, MaxLeaves)}
                 \cup {Block(1, GenesisBlock(0, "pow").hash, 0, [data |-> "test"], 0)}
    /\ pbft = None
    /\ handlers = <<>>
    /\ NoEngine

NextMerkle ==
    \/ BlockCalculateMerkleRoot
    \/ SecurityCalculateMerkleRoot

SpecMerkle == InitMerkle /\ [][NextMerkle]_vars

----------------------------------------------------------------------------
(* block.py, smart_contract.py: contract transactions of a block *)

\* d.get(key) is neither None nor empty
Has(d, key) == key \in DOMAIN d

\* the inputs create_contract_transaction takes from the sender's unspent
\* outputs until they cover the fee
RECURSIVE CoverFee(_, _, _, _, _)
CoverFee(tx, U, keys, total_input, fee) ==
    IF keys = {} \/ total_input >= fee THEN [tx |-> tx, total_input |-> total_input]
    ELSE LET k == CHOOSE x \in keys : TRUE
         IN  CoverFee(AddInputTo(tx, k[1], k[2]), U, keys \ {k},
                      total_input + U[k].amount, fee)

\* Transaction.create_contract_transaction at time t
CreateContractTransaction(contract_data, sender_address, U, fee, t) ==
    LET tx0 == [Transaction(t) EXCEPT !.type = "contract",
                                      !.contract_data = contract_data]
        tx1 == IF fee > 0 THEN AddOutputTo(tx0, fee, "MINERS") ELSE tx0
        c == CoverFee(tx1, U, UtxosForAddress(U, sender_address), 0, fee)
        tx2 == IF c.total_input > fee
               THEN AddOutputTo(c.tx, c.total_input - fee, sender_address)
               ELSE c.tx
    IN  [tx2 EXCEPT !.id = CalculateHash(tx2)]

\* contract_data of a call and of a deployment, as process_block_transactions
\* reads it
CallData ==
    [action |-> "call", contract_id |-> "c1", method |-> "transfer",
     params |-> [to |-> "B", amount |-> SendAmount]]

DeployData ==
    [action |-> "deploy", code |-> "class T(SmartContract)", owner |-> "B",
     init_params |-> [name |-> "Token"]]

\* a dict with the keys execute_smart_contracts reads
ContractDict ==
    [kind |-> "dict", id |-> "tx1", type |-> "contract", contract_id |-> "c1",
     method |-> "transfer", from |-> "B"]

\* Block.execute_smart_contracts from entry i (1-based) on: whether the call
\* ended in an exception, and contract_results.  contract_engine.execute is
\* called with four arguments and takes at most three: TypeError.
RECURSIVE ExecuteFrom(_, _, _)
ExecuteFrom(txs, i, results) ==
    IF i > Len(txs) THEN [raised |-> FALSE, contract_results |-> results]
    ELSE LET tx == txs[i]
         IN  IF ~Has(tx, "type") \/ tx.type # "contract"
             THEN ExecuteFrom(txs, i + 1, results)
             ELSE IF ~Has(tx, "contract_id") \/ ~Has(tx, "method")
             THEN ExecuteFrom(txs, i + 1, results)
             ELSE [raised |-> TRUE, contract_results |-> results]

ExecuteSmartContracts(block) ==
    IF "transactions" \notin DOMAIN block.data
    THEN [raised |-> FALSE, contract_results |-> block.contract_results]
    ELSE ExecuteFrom(block.data.transactions, 1, block.contract_results)

\* block.execute_smart_contracts(contract_engine)
BlockExecuteSmartContracts ==
    /\ LET r == ExecuteSmartContracts(mined)
       IN  /\ mined' = [mined EXCEPT !.contract_results = r.contract_results]
           /\ ret' = Result("execute_smart_contracts",
                            IF r.raised THEN "raise" ELSE "none")
    /\ UNCHANGED <<ledger, now, pbft, engines>>

\* the Transaction objects of a mempool: a call and a deployment paid by
\* GENESIS_ADDRESS, a payment and a coinbase-typed transaction
ContractEntries ==
    {CreateContractTransaction(CallData, GenesisAddress, GenesisUtxos(0), 1, 0),
     CreateContractTransaction(DeployData, GenesisAddress, GenesisUtxos(0), 1, 0),
     NoInputTx("B", 0),
     CreateCoinbase(SendAmount, "M", 0)}

\* the block mine_pending_transactions builds over a mempool and mines
BuiltBlock(miner_address, pending, t) ==
    LET block_transactions ==
            BlockTransactions(CreateCoinbase(MiningReward, miner_address, t), pending)
    IN  MineBlock(Block(1, GenesisBlock(0, "pow").hash, t,
                        [transactions |->
                            [i \in 1..Len(block_transactions) |->
                                TxToDict(block_transactions[i])]], 0),
                  Difficulty)

\* a block as mine_pending_transactions builds it, or a block made with
\* Block() over a dict that has contract_id and method as keys
InitContracts ==
    /\ consensus = [type |-> "pow", producers |-> {}]
    /\ now = 0
    /\ chain = <<GenesisBlock(0, "pow")>>
    /\ pending_transactions = <<>>
    /\ utxo_set = GenesisUtxos(0)
    /\ ret = Result("__init__", "none")
    /\ wtx = Transaction(0)
    /\ vret = Result("none", "none")
    /\ mined \in {BuiltBlock(m, pending, t) :
                     m \in {"M", "B"},
                     pending \in ListsUpTo(ContractEntries, MaxPending),
                     t \in 0..MaxTime}
                 \cup {Block(1, GenesisBlock(0, "pow").hash, 0,
                             [transactions |-> <<ContractDict>>], 0)}
    /\ pbft = None
    /\ handlers = <<>>
    /\ NoEngine

NextContracts == BlockExecuteSmartContracts

SpecContracts == InitContracts /\ [][NextContracts]_vars

----------------------------------------------------------------------------
(* A PBFT network whose membership changes while it votes *)

\* the addresses that join and leave: as many as min_validators
NetValidators == {ValidatorNames[i] : i \in 1..MinValidators}

\* the validators that send prepare and commit messages: enough of them to
\* reach 2f+1 among min_validators validators
Voters == {ValidatorNames[i] : i \in 1..(MinValidators - 1)}

\* the object starts empty; validators are added and removed, the primary or
\* somebody else pre-prepares, and votes on one block hash are recorded
NextPBFTNet ==
    \/ \E address \in NetValidators : PBFTAddValidator(address)
    \/ \E address \in NetValidators : PBFTRemoveValidator(address)
    \/ \E v \in NetValidators \cup {NoPrimary} : PBFTPrePrepare(v)
    \/ \E v \in Voters : PBFTPrepare(v)
    \/ \E v \in Voters : PBFTCommit(v)
    \/ PBFTIsCommitted(VotedBlock)
    \/ PBFTChangeView

SpecPBFTNet == InitPBFT /\ [][NextPBFTNet]_vars

\* pbft.prepare(block_hash, v) for any block hash
PBFTPrepareHash(block_hash, validator_address) ==
    LET r == Prepare(pbft, block_hash, validator_address)
    IN  /\ pbft' = r.obj
        /\ ret' = Result("prepare", IF r.ok THEN "true" ELSE "false")
        /\ UNCHANGED <<chain, pending_transactions, utxo_set, consensus, now,
                       wtx, vret, mined, handlers, engines>>

\* pbft.commit(block_hash, v) for any block hash
PBFTCommitHash(block_hash, validator_address) ==
    LET r == Commit(pbft, block_hash, validator_address)
    IN  /\ pbft' = r.obj
        /\ ret' = Result("commit", IF r.ok THEN "true" ELSE "false")
        /\ UNCHANGED <<chain, pending_transactions, utxo_set, consensus, now,
                       wtx, vret, mined, handlers, engines>>

\* the hashes of two different blocks proposed for the same height
ProposedHashes == {VotedBlock.hash, OtherBlock.hash}

\* a network of min_validators validators that is offered two blocks
InitPBFTTwoBlocks ==
    /\ InitPBFTVote
    /\ pbft = PBFTWithValidators(MinValidators)

NextPBFTTwoBlocks ==
    \/ \E h \in ProposedHashes, v \in Voters : PBFTPrepareHash(h, v)
    \/ \E h \in ProposedHashes, v \in Voters : PBFTCommitHash(h, v)
    \/ \E block \in {VotedBlock, OtherBlock} : PBFTIsCommitted(block)
    \/ PBFTChangeView

SpecPBFTTwoBlocks == InitPBFTTwoBlocks /\ [][NextPBFTTwoBlocks]_vars

----------------------------------------------------------------------------
(* Properties of the PBFT, DPoS, PoS, PoA, hybrid and sharding objects *)

\* 2f + 1 for n validators, f = (n - 1) div 3
TwoFPlusOne(n) == 2 * ((n - 1) \div 3) + 1

\* C21: PBFT: the prepares recorded for h are those of the validators whose
\* prepare(h, .) was accepted in the current view, and commit(h, v) is
\* rejected and records nothing unless v is a validator and at least 2f+1
\* distinct validators have prepared h.
C21_CommitNeedsPrepares ==
    [][LET h == VotedBlock.hash
           prepared == Recorded(pbft.prepared_messages, h)
       IN  /\ \A v \in Senders :
                PBFTPrepare(v) =>
                    Recorded(pbft'.prepared_messages, h) =
                        prepared \cup (IF v \in pbft.validators THEN {v} ELSE {})
           /\ PBFTChangeView => Recorded(pbft'.prepared_messages, h) = {}
           /\ \A v \in Senders :
                (/\ PBFTCommit(v)
                 /\ \/ v \notin pbft.validators
                    \/ Cardinality(prepared) < TwoFPlusOne(Cardinality(pbft.validators)))
                => /\ ret' = Result("commit", "false")
                   /\ pbft' = pbft]_vars

\* with seven validators and four prepares a commit was refused
C21_Witness ==
    /\ ret = Result("commit", "false")
    /\ Cardinality(pbft.validators) = 7
    /\ Cardinality(Recorded(pbft.prepared_messages, VotedBlock.hash)) = 4
    /\ pbft.committed_messages = <<>>

\* C22: PBFT with a fixed validator set: the commits recorded for h are those
\* of the validators whose commit(h, .) was accepted in the current view,
\* each counted once, and is_committed(h) and validate_block of a block with
\* hash h are true exactly when there are at least 2f+1 of them.
C22_CommittedAtQuorum ==
    [][LET h == VotedBlock.hash
           committed == Recorded(pbft.committed_messages, h)
           n == Cardinality(pbft.validators)
       IN  /\ \A v \in Senders :
                PBFTCommit(v) =>
                    Recorded(pbft'.committed_messages, h) =
                        committed \cup (IF ret'.result = "true" THEN {v} ELSE {})
           /\ \A v \in Senders : PBFTPrepare(v) =>
                    pbft'.committed_messages = pbft.committed_messages
           /\ PBFTChangeView => pbft'.committed_messages = <<>>
           /\ \A block \in {VotedBlock, OtherBlock} :
                (PBFTIsCommitted(block) \/ PBFTValidateBlock(block, pbft.primary))
                => ((ret'.result = "true") <=>
                       Cardinality(Recorded(pbft.committed_messages, block.hash))
                           >= TwoFPlusOne(n))]_vars

\* with seven validators the block is committed at the fifth distinct commit
C22_Witness ==
    /\ ret = Result("is_committed", "true")
    /\ Cardinality(pbft.validators) = 7
    /\ Cardinality(Recorded(pbft.committed_messages, VotedBlock.hash)) = 5

\* C23: PBFT: change_view adds one to current_view, makes
\* sorted(validators)[current_view mod n] the primary and empties both
\* message maps: right after it no block is committed, the one committed in
\* the old view included, and every commit is rejected.
C23_ChangeViewDropsDecisions ==
    [][PBFTChangeView =>
          LET n == Cardinality(pbft.validators)
          IN  /\ pbft'.current_view = pbft.current_view + 1
              /\ pbft'.primary =
                    SortedValidators(pbft.validators)[(pbft'.current_view % n) + 1]
              /\ pbft'.validators = pbft.validators
              /\ pbft'.prepared_messages = <<>>
              /\ pbft'.committed_messages = <<>>
              /\ \A block \in {VotedBlock, OtherBlock} :
                    /\ ~IsCommitted(pbft', block.hash)
                    /\ \A v \in Senders : ~Commit(pbft', block.hash, v).ok]_vars

\* the view of a network of seven validators was changed
C23_Witness ==
    /\ ret = Result("change_view", "none")
    /\ pbft.current_view = 1
    /\ Cardinality(pbft.validators) = 7
    /\ pbft.primary = "validator2"

\* the addresses in active_delegates
ActiveSet == {dpos.active_delegates[i] : i \in DOMAIN dpos.active_delegates}

\* C24: DPoS: after any sequence of vote calls active_delegates holds
\* min(21, number of delegates) entries, at most delegate_count = 21, each a
\* key of delegates and none twice, in descending order of accumulated
\* votes, and no delegate outside it has more votes than one inside it.
C24_ActiveDelegatesAreTheTop ==
    LET a == dpos.active_delegates
        all == Keys(dpos.delegates)
    IN  /\ Len(a) <= DelegateCount
        /\ Len(a) = (IF Cardinality(all) < DelegateCount
                     THEN Cardinality(all) ELSE DelegateCount)
        /\ ActiveSet \subseteq all
        /\ Cardinality(ActiveSet) = Len(a)
        /\ \A i, j \in DOMAIN a :
              i < j => VotesOf(dpos, a[i]) >= VotesOf(dpos, a[j])
        /\ \A out \in all \ ActiveSet : \A in \in ActiveSet :
              VotesOf(dpos, out) <= VotesOf(dpos, in)

\* of 22 delegates the last one voted in leads and a lighter one is left out
C24_Witness ==
    /\ Len(dpos.delegates) = DelegateCount + 1
    /\ Len(dpos.active_delegates) = DelegateCount
    /\ dpos.active_delegates[1] = DelegateNames[DelegateCount + 1]
    /\ DelegateNames[DelegateCount] \notin ActiveSet
    /\ VotesOf(dpos, DelegateNames[DelegateCount]) = 1

\* C25: DPoS: get_next_delegate returns active_delegates[round mod |active|]
\* and adds one to round, leaving the list alone, so that a call that follows
\* another with no vote in between returns the cyclic successor of what that
\* one returned; with no active delegate it returns none and changes nothing.
C25_RoundRobin ==
    [][DPoSGetNextDelegate =>
          LET a == dpos.active_delegates
              n == Len(a)
          IN  IF n = 0
              THEN ret' = Result("get_next_delegate", "none") /\ dpos' = dpos
              ELSE /\ ret' = Result("get_next_delegate", a[(dpos.round % n) + 1])
                   /\ dpos' = [dpos EXCEPT !.round = dpos.round + 1]
                   /\ (ret.op = "get_next_delegate" /\ ret.result # "none")
                      => \E i \in DOMAIN a :
                            /\ a[i] = ret.result
                            /\ ret'.result = a[(i % n) + 1]]_vars

\* twenty-one delegates have had their turn and the first is selected again
C25_Witness ==
    /\ Len(dpos.active_delegates) = DelegateCount
    /\ dpos.round = DelegateCount + 1
    /\ ret = Result("get_next_delegate", dpos.active_delegates[1])

\* C26: under "pos" or "dpos" mine_pending_transactions(miner) appends a
\* block only if miner is a registered validator or an active delegate;
\* otherwise it returns false and leaves the chain, the mempool (up to the
\* ids that to_dict fills in) and the UTXO set as they were.
C26_UnregisteredProducerRefused ==
    [][\A miner_address \in Miners, t \in 0..MaxTime :
          (/\ MinePendingTransactions(miner_address, t)
           /\ consensus.type \in {"pos", "dpos"})
          => /\ chain' # chain => miner_address \in consensus.producers
             /\ miner_address \notin consensus.producers
                => /\ ret' = Result("mine_pending_transactions", "false")
                   /\ chain' = chain
                   /\ utxo_set' = utxo_set
                   /\ Len(pending_transactions') = Len(pending_transactions)
                   /\ FirstDict(pending_transactions) = 0
                      => SameTransactions(pending_transactions,
                                          pending_transactions')]_vars

\* C27: PoS: register_validator(addr, stake) returns true and records the
\* stake iff stake >= min_stake = 10 and otherwise changes nothing;
\* remove_validator takes the address out; validate_block(block, v) is true
\* iff v is in the registry so maintained, that is, registered and not
\* removed since, and block.hash equals block.calculate_hash().
C27_StakeGatesTheRegistry ==
    [][/\ \A address \in StakeHolders, stake_amount \in Stakes :
            PoSRegisterValidator(address, stake_amount) =>
                /\ ret'.result = "true" <=> stake_amount >= MinStake
                /\ IF stake_amount >= MinStake
                   THEN /\ DOMAIN pos'.validators = DOMAIN pos.validators \cup {address}
                        /\ pos'.validators[address] = stake_amount
                        /\ \A a \in DOMAIN pos.validators \ {address} :
                              pos'.validators[a] = pos.validators[a]
                   ELSE pos' = pos
       /\ \A address \in StakeHolders :
            PoSRemoveValidator(address) =>
                /\ DOMAIN pos'.validators = DOMAIN pos.validators \ {address}
                /\ \A a \in DOMAIN pos'.validators :
                      pos'.validators[a] = pos.validators[a]
       /\ \A block \in {VotedBlock, ForgedBlock}, v \in StakeHolders :
            PoSValidateBlock(block, v) =>
                /\ pos' = pos
                /\ ret'.result = "true" <=>
                      /\ v \in DOMAIN pos.validators
                      /\ block.hash = BlockCalculateHash(block)]_vars

\* a block of the one validator left in the registry was accepted
C27_Witness ==
    /\ ret = Result("validate_block", "true")
    /\ pos.validators = ("staker2" :> MinStake)

\* get_next_authority was called and did what the second half of the
\* statement says: it returned sorted(authorities)[index mod n], advanced the
\* index and set last_block_time to now
C28_Selected ==
    LET sorted_authorities == SortedAuthorities(poa)
        n == Len(sorted_authorities)
    IN  /\ n > 0
        /\ ret' = Result("get_next_authority",
                         sorted_authorities[(poa.current_authority_index % n) + 1])
        /\ poa' = [poa EXCEPT !.current_authority_index = @ + 1,
                              !.last_block_time = now]

\* the index and last_block_time change in get_next_authority only
C28_OnlySelectionMoves ==
    ~PoAGetNextAuthority =>
        /\ poa'.current_authority_index = poa.current_authority_index
        /\ poa'.last_block_time = poa.last_block_time

\* C28 as stated: get_next_authority returns none and changes nothing when
\* less than block_time has passed since the last successful selection, and
\* otherwise returns sorted(authorities)[index mod n], advances the index and
\* sets last_block_time to now.  (The index counts the successful
\* selections, so there has been one iff it is positive.)
C28_NoneOnlyWithinBlockTimeOfSelection ==
    [][/\ C28_OnlySelectionMoves
       /\ PoAGetNextAuthority =>
            IF /\ poa.current_authority_index > 0
               /\ now - poa.last_block_time < BlockTime
            THEN ret' = Result("get_next_authority", "none") /\ poa' = poa
            ELSE C28_Selected]_vars

\* C28 amended: get_next_authority returns none and changes nothing when
\* there is no authority or less than block_time has passed since
\* last_block_time, which is the time of construction until the first
\* successful selection and the time of the last successful selection after
\* it; otherwise it returns sorted(authorities)[index mod n], advances the
\* index and sets last_block_time to now.  The index and last_block_time
\* change in no other call, so successive selections are at least block_time
\* apart and go through the sorted authorities cyclically.
C28_NoneWithinBlockTimeOrNoAuthority ==
    [][/\ C28_OnlySelectionMoves
       /\ PoAGetNextAuthority =>
            /\ IF \/ poa.authorities = {}
                  \/ now - poa.last_block_time < BlockTime
               THEN ret' = Result("get_next_authority", "none") /\ poa' = poa
               ELSE C28_Selected
            /\ ret'.result # "none" => now - poa.last_block_time >= BlockTime]_vars

\* two authorities: the third selection is the first authority again
C28_Witness ==
    /\ poa.authorities = {"authority1", "authority2"}
    /\ poa.current_authority_index = 3
    /\ ret = Result("get_next_authority", "authority1")
    /\ poa.last_block_time = now

C30_Refused ==
    /\ ret'.result \in {"Invalid shard ID", "Failed to register validator"}
    /\ sharding' = sharding

\* assign_validator put address with its stake into shard shard_id
C30_Assigned(address, stake_amount, shard_id) ==
    /\ ret'.result = AssignedMessages[shard_id + 1]
    /\ address \in sharding'.shards[shard_id + 1].validators
    /\ address \in DOMAIN sharding'.shards[shard_id + 1].consensus.validators
    /\ sharding'.shards[shard_id + 1].consensus.validators[address] = stake_amount
    /\ address \in DOMAIN sharding'.global_consensus.validators
    /\ sharding'.global_consensus.validators[address] = stake_amount
    /\ sharding'.validator_to_shard[address] = shard_id
    /\ \A k \in 0..(ShardCount - 1) : k # shard_id =>
          sharding'.shards[k + 1] = sharding.shards[k + 1]

\* C30: sharding: assign_validator with shard_id omitted chooses a shard with
\* the fewest validators, the lowest-indexed of them; with a shard_id out of
\* range or a stake below min_stake it fails and changes nothing; on success
\* the address is in the chosen shard's validator set and PoS registry and in
\* the global PoS registry, and validator_to_shard[address] is that shard.
C30_AssignValidator ==
    [][/\ \A address \in ShardValidators, stake_amount \in {MinStake - 1, MinStake},
             shard_id \in -1..ShardCount :
            ShardingAssignValidator(address, stake_amount, shard_id) =>
                IF \/ shard_id < 0
                   \/ shard_id >= ShardCount
                   \/ stake_amount < MinStake
                THEN C30_Refused
                ELSE C30_Assigned(address, stake_amount, shard_id)
       /\ \A address \in ShardValidators, stake_amount \in {MinStake - 1, MinStake} :
            ShardingAssignValidatorAuto(address, stake_amount) =>
                IF stake_amount < MinStake THEN C30_Refused
                ELSE \E shard_id \in 0..(ShardCount - 1) :
                        /\ \A j \in 0..(ShardCount - 1) :
                              /\ ShardSize(sharding, shard_id) <= ShardSize(sharding, j)
                              /\ j < shard_id =>
                                    ShardSize(sharding, shard_id) < ShardSize(sharding, j)
                        /\ C30_Assigned(address, stake_amount, shard_id)]_vars

\* shard 0 holds a validator and the second validator went to shard 1
C30_Witness ==
    /\ ret = Result("assign_validator", AssignedMessages[2])
    /\ sharding.shards[1].validators = {"validator1"}
    /\ sharding.shards[2].validators = {"validator2"}
    /\ sharding.shards[3].validators = {}
    /\ sharding.shards[4].validators = {}
    /\ sharding.validator_to_shard = ("validator1" :> 0) @@ ("validator2" :> 1)
    /\ DOMAIN sharding.global_consensus.validators = {"validator1", "validator2"}

\* C31: sharding: validate_block(block, v, shard_id) fails for a v that was
\* never assigned; for an assigned v and a shard_id it succeeds exactly when
\* validator_to_shard[v] = shard_id and that shard's PoS registry validates
\* the block for v; with shard_id omitted the result for an assigned v is
\* that of the global PoS registry.
C31_ShardValidation ==
    [][/\ \A block \in {VotedBlock, ForgedBlock}, v \in ShardValidators,
             shard_id \in -1..ShardCount :
            ShardingValidateBlock(block, v, shard_id) =>
                /\ sharding' = sharding
                /\ IF v \notin DOMAIN sharding.validator_to_shard
                   THEN ret'.result = "false"
                   ELSE ret'.result = "true" <=>
                           /\ sharding.validator_to_shard[v] = shard_id
                           /\ v \in DOMAIN sharding.shards[shard_id + 1].consensus.validators
                           /\ block.hash = BlockCalculateHash(block)
       /\ \A block \in {VotedBlock, ForgedBlock}, v \in ShardValidators :
            ShardingValidateBlockGlobal(block, v) =>
                /\ sharding' = sharding
                /\ IF v \notin DOMAIN sharding.validator_to_shard
                   THEN ret'.result = "false"
                   ELSE ret'.result =
                           Bool(PoSValidate(sharding.global_consensus, block, v))]_vars

\* a validator that was moved from shard 0 to shard 1 had a block accepted
C31_Witness ==
    /\ ret = Result("sharding.validate_block", "true")
    /\ DOMAIN sharding.validator_to_shard = {"validator1"}
    /\ sharding.validator_to_shard["validator1"] = 1
    /\ "validator1" \in sharding.shards[1].validators

\* the root the statement describes: null for the empty list, the leaf hash
\* for one transaction, and otherwise the hash of the two halves, the last
\* hash of a level of odd length taken twice
C32_Root(transactions) ==
    LET h == LeafHashes(transactions)
        n == Len(transactions)
    IN  IF n = 0 THEN None
        ELSE IF n = 1 THEN h[1]
        ELSE IF n = 2 THEN Sha256Concat(h[1], h[2])
        ELSE IF n = 3
        THEN Sha256Concat(Sha256Concat(h[1], h[2]), Sha256Concat(h[3], h[3]))
        ELSE MerkleTree(h)

\* C32: the Merkle root of a transaction list is null for the empty list, the
\* leaf hash for one transaction and otherwise built level by level with the
\* last hash of an odd level duplicated, in Block.calculate_merkle_root and
\* in SecurityManager.calculate_merkle_root alike.
C32_MerkleRootsAgree ==
    [][/\ (BlockCalculateMerkleRoot /\ "transactions" \in DOMAIN mined.data)
          => ret'.result = C32_Root(mined.data.transactions)
       /\ SecurityCalculateMerkleRoot
          => ret'.result = C32_Root(mined.data.transactions)]_vars

C34_OnlyMined ==
    /\ consensus.type = "pow"
    /\ \/ Len(chain) = 1 /\ pending_transactions = <<>>
       \/ /\ Len(chain) > 1
          /\ Len(pending_transactions) = 1
          /\ \E m \in Miners : pending_transactions = <<RewardDict(m)>>

\* C34: on a freshly constructed PoW blockchain every one of k successive
\* calls of mine_pending_transactions completes, returns true and appends
\* exactly one block.
C34_MiningCanBeRepeated ==
    [][\A miner_address \in Miners, t \in 0..MaxTime :
          (C34_OnlyMined /\ MinePendingTransactions(miner_address, t))
          => /\ ret' = Result("mine_pending_transactions", "true")
             /\ Len(chain') = Len(chain) + 1]_vars

\* C35: is_chain_valid leaves the blockchain's own UTXO set as it was,
\* whatever it returns: the same keys with the same amounts, owners and spent
\* flags.
C35_IsChainValidIsPure ==
    [][IsChainValid => utxo_set' = utxo_set]_vars

\* the sum of the amounts of all unspent entries of a UTXO set
C36_TotalUnspent(U) == SumAmounts(U, {k \in DOMAIN U : ~U[k].is_spent})

\* C36: every block appended by mine_pending_transactions increases the total
\* unspent value by at most mining_reward, and the appended block holds exactly
\* one coinbase transaction.
C36_ValueConservation ==
    [][Len(chain') = Len(chain) + 1 =>
          LET txs == chain'[Len(chain')].data.transactions
          IN  /\ C36_TotalUnspent(utxo_set') <= C36_TotalUnspent(utxo_set) + MiningReward
              /\ Cardinality({i \in 1..Len(txs) : txs[i].type = "coinbase"}) = 1]_vars

\* C37: while the network has fewer than min_validators validators (so that
\* no pre_prepare can have been accepted), no call makes is_committed(h) true.
C37_NoCommitBelowMinValidators ==
    [][(/\ Cardinality(pbft.validators) < MinValidators
        /\ pbft'.validators = pbft.validators
        /\ ~IsCommitted(pbft, VotedBlock.hash))
          => ~IsCommitted(pbft', VotedBlock.hash)]_vars

\* C38: in every reachable state at most one block hash satisfies
\* is_committed.
C38_OneHashCommitted ==
    ~(IsCommitted(pbft, VotedBlock.hash) /\ IsCommitted(pbft, OtherBlock.hash))

\* C39: once is_committed(h) is true it stays true as long as the view is
\* the same, whatever validators are added or removed.
C39_DecisionStable ==
    [][(IsCommitted(pbft, VotedBlock.hash) /\ pbft'.current_view = pbft.current_view)
          => IsCommitted(pbft', VotedBlock.hash)]_vars

\* the second half of C39: the prepare and commit sets recorded for h contain
\* current validators only
C39_RecordedAreValidators ==
    /\ Recorded(pbft.prepared_messages, VotedBlock.hash) \subseteq pbft.validators
    /\ Recorded(pbft.committed_messages, VotedBlock.hash) \subseteq pbft.validators

\* the shards (numbered from 0) whose validator set holds the address
C40_ShardsHolding(address) ==
    {k \in 0..(ShardCount - 1) : address \in sharding.shards[k + 1].validators}

\* the shards (numbered from 0) whose PoS registry holds the address
C40_RegistriesHolding(address) ==
    {k \in 0..(ShardCount - 1) :
        address \in DOMAIN sharding.shards[k + 1].consensus.validators}

\* C40: every assigned address is a member of exactly one shard's validator
\* set and of exactly one shard's PoS registry, those of the shard
\* validator_to_shard names.
C40_MembershipConsistent ==
    \A address \in DOMAIN sharding.validator_to_shard :
        /\ C40_ShardsHolding(address) = {sharding.validator_to_shard[address]}
        /\ C40_RegistriesHolding(address) = {sharding.validator_to_shard[address]}

====
